---- MODULE Spec2Model ----
(***************************************************************************)
(* Model of src/src/patent_researcher_agent: utils/error_handling.py,      *)
(* utils/workflow_tracker.py, core/listeners, crew.py (the workflow's      *)
(* listener), ui/chat_ui.py (one run of a workflow),                       *)
(* utils/prometheus_metrics.py and utils/metrics_persistence.py            *)
(* in eleven specifications over one set of variables; each leaves the     *)
(* variables it does not use at their initial values.                      *)
(*   Spec         a CircuitBreaker under concurrent safe_execute calls     *)
(*   RetrySpec    the retry wrapper called on its own                      *)
(*   HandlerSpec  ErrorHandler's registry of breakers and error counts     *)
(*   TrackerSpec  WorkflowTracker under concurrent calls                   *)
(*   ListenerSpec the monitoring listeners of workflows on the event bus   *)
(*   PersistSpec  the metrics, their snapshot file, save and restore over  *)
(*                the runs of the process                                  *)
(*   CounterSpec  concurrent track_workflow calls beside the periodic save *)
(*   LockSpec     ErrorHandler.handle_error's lock around its counts       *)
(*   LiveSpec     the breaker with callers that keep calling, under weak   *)
(*                fairness, and a function that fails a bounded number of  *)
(*                times                                                    *)
(*   StepSpec     the start and end of a tracked step in the agent and     *)
(*                crew listeners, beside the listener's cleanup            *)
(*   RunSpec      one run of the chat UI: start_workflow, crew(), kickoff, *)
(*                end_workflow and the finally block                       *)
(*                                                                         *)
(* Spec: one CircuitBreaker registered in an ErrorHandler, called          *)
(* concurrently by worker threads through ErrorHandler.safe_execute, with  *)
(* the optional                                                            *)
(* retry wrapper composed inside the breaker (retry(cfg)(func) is what     *)
(* CircuitBreaker.call receives).                                          *)
(*                                                                         *)
(* Granularity: one step per access to shared state that the code makes    *)
(* outside a lock (call() reads self.state, _should_attempt_reset reads    *)
(* last_failure_time, _set_state(HALF_OPEN) writes self.state), one step   *)
(* to acquire self.lock and one step for the body of a `with self.lock:`   *)
(* block together with its release.  The unlocked accesses are single      *)
(* reads or single writes, so every interleaving of them with a locked     *)
(* body is equivalent to one where the body is atomic.                     *)
(*                                                                         *)
(* Time is an integer clock `now` (datetime.now()); timeouts and delays    *)
(* are whole clock units.  recovery_timeout is at least 1, so reading the  *)
(* clock and last_failure_time in one step loses no outcome of line 70.    *)
(*                                                                         *)
(* func is the environment: each invocation returns, or raises an          *)
(* exception that may or may not match retry_exceptions and                *)
(* expected_exception.  Retry configurations use exponential backoff with  *)
(* base_delay 1 and max_delay 2.                                           *)
(***************************************************************************)
EXTENDS Integers, Sequences, FiniteSets, TLC

\* ---------------------------------------------------------------- bounds
\* Last value of the clock, number of safe_execute calls started, largest
\* failure_threshold and largest max_attempts explored.
MaxTime == 1
MaxCalls == 4
MaxThreshold == 2
MaxAttempts == 2
\* CircuitBreakerConfig.recovery_timeout of the breaker, in clock units.
recovery_timeout == 1

\* Two worker threads call safe_execute concurrently.
Threads == {1, 2}

\* ------------------------------------------------------------- constants
\* CircuitState (enum values)
CLOSED == "closed"
OPEN == "open"
HALF_OPEN == "half_open"
CircuitState == {CLOSED, OPEN, HALF_OPEN}

\* Python None for the Optional[datetime] fields; a set time t is <<t>>.
None == <<>>
At(t) == <<t>>
TimeOf(x) == x[1]

\* type(error).__name__ of the errors a call can end in: the breaker's own
\* error, and (one name standing for all of them) an error raised by func.
CircuitBreakerOpenError == "CircuitBreakerOpenError"
FuncError == "Exception"
ErrorTypes == {CircuitBreakerOpenError, FuncError}

\* RetryConfig objects; safe_execute's retry_config argument is None (no retry
\* wrapper) or <<c>> for one of them.  max_attempts is 1 (func is invoked
\* once) or MaxAttempts.
RetryConfig ==
    [max_attempts : {1, MaxAttempts}, base_delay : {1}, max_delay : {2},
     exponential_backoff : {TRUE}]

VARIABLES
    \* CircuitBreaker fields
    state, failure_count, last_failure_time, last_success_time, lock,
    \* CircuitBreakerConfig
    failure_threshold,
    \* ErrorHandler.error_stats
    error_stats,
    \* the clock
    now,
    \* per thread: position in safe_execute / call / retry wrapper, and locals
    pc, guarded, retry_config, attempt, wake, err,
    \* per thread, observation of the current call: how the breaker admitted
    \* it, how often func was invoked, how often time.sleep was called, how
    \* many outcomes it has reported to the breaker (_on_success, _on_failure)
    admitted, invocations, sleeps, reported,
    \* observation of the breaker: clock value when state last became OPEN,
    \* whether any success has been recorded since construction
    opened_at, fresh,
    \* number of safe_execute calls started
    calls,
    \* --- the retry wrapper called on its own (one caller):
    \* the decorator's config, the wrapper's position, its loop variable
    \* `attempt` and its local last_exception
    config, rpc, loop_attempt, last_exception,
    \* observation of the current wrapper call: the outcome of each invocation
    \* of func, each delay passed to time.sleep, how the wrapper ended
    outcomes, slept, retry_result,
    \* --- ErrorHandler seen from its callers:
    \* ErrorHandler.circuit_breakers (name -> breaker instance), number of
    \* CircuitBreaker objects constructed, ErrorHandler.lock
    circuit_breakers, instances, handler_lock,
    \* per thread: position in safe_execute / handle_error, the
    \* circuit_breaker_name argument, the exception caught at line 219, the
    \* count read at line 191
    hpc, cb_name, herr, count_read,
    \* observation: per error type the number of safe_execute calls that have
    \* raised it to their caller, per thread what its last call raised,
    \* number of safe_execute calls started on this handler
    ended, surfaced, hcalls,
    \* --- WorkflowTracker:
    \* _active_workflows, _workflow_listeners, _last_workflow_activity, _lock
    active_workflows, workflow_listeners, last_workflow_activity, tracker_lock,
    \* per thread: position in a tracker method, its arguments workflow_id,
    \* listener and max_inactive_time, cleanup's locals current_time and
    \* to_remove, the value the thread's last call returned
    wpc, workflow_id, listener, max_inactive_time, current_time, to_remove,
    returned,
    \* --- the monitoring listeners on the event bus:
    \* the listener objects constructed so far (by workflow_id; fields
    \* is_active, start_times, execution_data), crew.py's module global
    \* global_event_listener, the handler invocation in progress (position,
    \* the listener it belongs to, the workflow whose execution emitted the
    \* event, the event and the agent it is about, how it ended)
    listeners, global_event_listener, handler,
    \* --- the Prometheus metrics (prometheus_client's registry), the file
    \* MetricsPersistence.persistence_file on disk, whether the process
    \* (the module-level PrometheusMetrics instance) is running, per saving
    \* thread its position in _save_metrics / save_metrics, its save_data
    \* and what save_metrics returned, how the last _restore_metrics ended
    registry, persistence_file, up, savers, restore_outcome,
    \* --- the threads that call metrics.track_workflow concurrently: per
    \* thread its position in the call, the value its inc() read and the
    \* inc() calls it has completed; the holder of the lock that guards the
    \* counter child's value (0: free); the value the counter had when the
    \* threads were started (None before)
    workers, value_lock, prior,
    \* --- the bus's threads that run the handlers of one listener at the
    \* same time: per thread the handler invocation it is in (position, the
    \* kind of step and the event, the local `duration`), and per kind of
    \* step the start events whose _start_tracking has run
    delivery, accepted,
    \* --- a chat run (ui/chat_ui.py run): its position, its crew object's
    \* workflow_id, its local workflow_id, the uuids generated so far
    run

cbvars == <<state, failure_count, last_failure_time, last_success_time>>
cfgvars == <<failure_threshold>>
locals == <<guarded, retry_config, attempt, wake, err>>
obs == <<admitted, invocations, sleeps, reported>>
vars == <<state, failure_count, last_failure_time, last_success_time, lock,
          failure_threshold, error_stats, now,
          pc, guarded, retry_config, attempt, wake, err,
          admitted, invocations, sleeps, reported, opened_at, fresh,
          calls,
          config, rpc, loop_attempt, last_exception, outcomes, slept,
          retry_result,
          circuit_breakers, instances, handler_lock, hpc, cb_name, herr,
          count_read, ended, surfaced, hcalls,
          active_workflows, workflow_listeners, last_workflow_activity,
          tracker_lock, wpc, workflow_id, listener, max_inactive_time,
          current_time, to_remove, returned,
          listeners, global_event_listener, handler, registry,
          persistence_file, up, savers, restore_outcome,
          workers, value_lock, prior, delivery, accepted, run>>

\* The variables of the retry wrapper called on its own, of the ErrorHandler
\* seen from its callers (error_stats apart), and of the WorkflowTracker.
rtvars == <<config, rpc, loop_attempt, last_exception, outcomes, slept,
            retry_result>>
hvars == <<circuit_breakers, instances, handler_lock, hpc, cb_name, herr,
           count_read, ended, surfaced, hcalls>>
wtvars == <<active_workflows, workflow_listeners, last_workflow_activity,
            tracker_lock, wpc, workflow_id, listener, max_inactive_time,
            current_time, to_remove, returned>>
\* The variables of the monitoring listeners, and of the metrics and their
\* persistence.
lsvars == <<listeners, global_event_listener, handler>>
pstvars == <<persistence_file, up, savers, restore_outcome>>
ctvars == <<workers, value_lock, prior>>
stvars == <<delivery, accepted, run>>
mtvars == <<registry, pstvars, ctvars, stvars>>
\* The variables of the breaker under concurrent safe_execute calls
\* (error_stats and the clock apart).
brvars == <<cbvars, lock, cfgvars, pc, locals, obs, opened_at, fresh, calls>>

\* The retry wrapper has not been called.
RetryIdle ==
    /\ config = None
    /\ rpc = "idle"
    /\ loop_attempt = 0
    /\ last_exception = None
    /\ outcomes = <<>>
    /\ slept = <<>>
    /\ retry_result = None

\* ErrorHandler.__init__ (circuit_breakers = {}, lock free); no caller inside.
HandlerConstructed ==
    /\ circuit_breakers = <<>>
    /\ instances = 0
    /\ handler_lock = 0
    /\ hpc = [t \in Threads |-> "idle"]
    /\ cb_name = [t \in Threads |-> None]
    /\ herr = [t \in Threads |-> None]
    /\ count_read = [t \in Threads |-> 0]
    /\ ended = [e \in ErrorTypes |-> 0]
    /\ surfaced = [t \in Threads |-> None]
    /\ hcalls = 0

\* WorkflowTracker.__init__ (empty collections, lock free); no caller inside.
TrackerConstructed ==
    /\ active_workflows = {}
    /\ workflow_listeners = <<>>
    /\ last_workflow_activity = <<>>
    /\ tracker_lock = 0
    /\ wpc = [t \in Threads |-> "idle"]
    /\ workflow_id = [t \in Threads |-> None]
    /\ listener = [t \in Threads |-> None]
    /\ max_inactive_time = [t \in Threads |-> 0]
    /\ current_time = [t \in Threads |-> 0]
    /\ to_remove = [t \in Threads |-> {}]
    /\ returned = [t \in Threads |-> None]

\* The steps whose handlers run concurrently: an agent's execution
\* (agent_listener.py) and the crew's kickoff (crew_listener.py).
StepKinds == {"agent", "crew"}

\* A thread of the bus that is in no handler.
NoDelivery ==
    [pc |-> "idle", kind |-> "", event |-> "", duration |-> 0, late |-> FALSE]

\* No MonitoringEventListener has been constructed, no event is being
\* handled.
NoListeners ==
    /\ listeners = <<>>
    /\ global_event_listener = None
    /\ handler = [pc |-> "idle", self |-> "", origin |-> "", event |-> "",
                  agent_name |-> "", outcome |-> ""]
    /\ delivery = [t \in Threads |-> NoDelivery]
    /\ accepted = [kind \in StepKinds |-> 0]
    /\ run = [pc |-> "idle", crew |-> None, workflow_id |-> None, used |-> {}]

\* The threads that track workflows.
MaxWorkers == 2
Workers == 1..MaxWorkers

NoWorkers == [t \in Workers |-> [pc |-> "idle", value |-> 0, incs |-> 0]]

\* prometheus_metrics.py has been imported: the metrics are defined (lines
\* 24-100) and have no samples; no snapshot file has been written and the
\* PrometheusMetrics instance has not been constructed.
MetricsDefined ==
    /\ registry = <<>>
    /\ persistence_file = None
    /\ up = FALSE
    /\ savers = [s \in {"periodic", "shutdown"} |->
                    [pc |-> "idle", save_data |-> None, returned |-> None]]
    /\ restore_outcome = "none"
    /\ workers = NoWorkers
    /\ value_lock = 0
    /\ prior = None

\* CircuitBreaker.__init__, ErrorHandler.__init__, WorkflowTracker.__init__,
\* idle threads.
Init ==
    /\ RetryIdle
    /\ HandlerConstructed
    /\ TrackerConstructed
    /\ NoListeners
    /\ MetricsDefined
    /\ state = CLOSED
    /\ failure_count = 0
    /\ last_failure_time = None
    /\ last_success_time = None
    /\ lock = 0
    /\ failure_threshold \in 1..MaxThreshold
    /\ error_stats = [e \in ErrorTypes |-> 0]
    /\ now = 0
    /\ pc = [t \in Threads |-> "idle"]
    /\ guarded = [t \in Threads |-> FALSE]
    /\ retry_config = [t \in Threads |-> None]
    /\ attempt = [t \in Threads |-> 0]
    /\ wake = [t \in Threads |-> 0]
    /\ err = [t \in Threads |-> "none"]
    /\ admitted = [t \in Threads |-> "none"]
    /\ invocations = [t \in Threads |-> 0]
    /\ sleeps = [t \in Threads |-> 0]
    /\ reported = [t \in Threads |-> 0]
    /\ opened_at = None
    /\ fresh = TRUE
    /\ calls = 0

\* The clock advances.
Tick ==
    /\ now < MaxTime
    /\ now' = now + 1
    /\ UNCHANGED <<cbvars, lock, cfgvars, error_stats, pc, locals, obs,
                   opened_at, fresh, calls>>
    /\ UNCHANGED <<rtvars, hvars, wtvars,
                   lsvars, mtvars>>


\* ------------------------------------------------- ErrorHandler.safe_execute
\* What a thread's locals and observations are between two calls.
Finished(t) ==
    /\ guarded' = [guarded EXCEPT ![t] = FALSE]
    /\ retry_config' = [retry_config EXCEPT ![t] = None]
    /\ attempt' = [attempt EXCEPT ![t] = 0]
    /\ wake' = [wake EXCEPT ![t] = 0]
    /\ err' = [err EXCEPT ![t] = "none"]
    /\ admitted' = [admitted EXCEPT ![t] = "none"]
    /\ invocations' = [invocations EXCEPT ![t] = 0]
    /\ sleeps' = [sleeps EXCEPT ![t] = 0]
    /\ reported' = [reported EXCEPT ![t] = 0]

\* safe_execute(func, circuit_breaker_name=..., retry_config=...) is entered.
\* g: circuit_breaker_name is set and names a registered breaker (line 212);
\* rc: the retry_config argument.  With g the wrapped (retry-decorated) func is
\* handed to circuit_breaker.call, otherwise it is called directly (line 217).
SafeExecute(t) ==
    /\ pc[t] = "idle"
    /\ calls < MaxCalls
    /\ calls' = calls + 1
    /\ \E g \in BOOLEAN, rc \in {<<c>> : c \in RetryConfig} \cup {None} :
          /\ guarded' = [guarded EXCEPT ![t] = g]
          /\ retry_config' = [retry_config EXCEPT ![t] = rc]
          /\ pc' = [pc EXCEPT ![t] = IF g THEN "cb_check" ELSE "invoke"]
    /\ UNCHANGED <<cbvars, lock, cfgvars, error_stats, now, attempt, wake, err,
                   obs, opened_at, fresh>>
    /\ UNCHANGED <<rtvars, hvars, wtvars,
                   lsvars, mtvars>>

\* ------------------------------------------------------ CircuitBreaker.call
\* Line 50: `if self.state == CircuitState.OPEN` (no lock held).
CheckState(t) ==
    /\ pc[t] = "cb_check"
    /\ IF state = OPEN
          THEN /\ pc' = [pc EXCEPT ![t] = "cb_reset"]
               /\ UNCHANGED admitted
          ELSE /\ pc' = [pc EXCEPT ![t] = "invoke"]
               /\ admitted' = [admitted EXCEPT ![t] = state]
    /\ UNCHANGED <<cbvars, lock, cfgvars, error_stats, now, locals,
                   invocations, sleeps, reported, opened_at, fresh, calls>>
    /\ UNCHANGED <<rtvars, hvars, wtvars,
                   lsvars, mtvars>>

ResetOnlyLater ==
    /\ last_failure_time # None
    /\ now - TimeOf(last_failure_time) > recovery_timeout

\* _should_attempt_reset (no lock held).
ShouldAttemptReset ==
    /\ last_failure_time # None
    /\ now - TimeOf(last_failure_time) >= recovery_timeout

RaiseOpenCounted(t) ==
    /\ pc' = [pc EXCEPT ![t] = "handle_error"]
    /\ err' = [err EXCEPT ![t] = CircuitBreakerOpenError]
    /\ failure_count' = failure_count + 1
    /\ last_failure_time' = At(now)
    /\ UNCHANGED <<state, last_success_time, guarded, retry_config, attempt,
                   wake, sleeps>>

RaiseOpenRetried(t) ==
    IF retry_config[t] # None
       THEN /\ pc' = [pc EXCEPT ![t] = "handle_error"]
            /\ err' = [err EXCEPT ![t] = CircuitBreakerOpenError]
            /\ sleeps' = [sleeps EXCEPT ![t] = retry_config[t][1].max_attempts - 1]
            /\ UNCHANGED <<cbvars, guarded, retry_config, attempt, wake>>
       ELSE /\ pc' = [pc EXCEPT ![t] = "handle_error"]
            /\ err' = [err EXCEPT ![t] = CircuitBreakerOpenError]
            /\ UNCHANGED <<cbvars, guarded, retry_config, attempt, wake, sleeps>>

\* Line 54: raise CircuitBreakerOpenError; it is raised outside call()'s try
\* block, so it reaches safe_execute's `except Exception` unrecorded.
RaiseOpen(t) ==
    /\ pc' = [pc EXCEPT ![t] = "handle_error"]
    /\ err' = [err EXCEPT ![t] = CircuitBreakerOpenError]
    /\ UNCHANGED <<cbvars, guarded, retry_config, attempt, wake, sleeps>>

\* Lines 51-54: the OPEN branch of call().
AttemptReset(t) ==
    /\ pc[t] = "cb_reset"
    /\ IF ShouldAttemptReset
          THEN /\ pc' = [pc EXCEPT ![t] = "cb_half"]
               /\ UNCHANGED <<cbvars, locals, sleeps>>
          ELSE RaiseOpen(t)
    /\ UNCHANGED <<lock, cfgvars, error_stats, now, admitted, invocations,
                   reported, opened_at, fresh, calls>>
    /\ UNCHANGED <<rtvars, hvars, wtvars,
                   lsvars, mtvars>>

\* Line 52: self._set_state(CircuitState.HALF_OPEN) (no lock held).
SetHalfOpen(t) ==
    /\ pc[t] = "cb_half"
    /\ state' = HALF_OPEN
    /\ admitted' = [admitted EXCEPT ![t] = "trial"]
    /\ pc' = [pc EXCEPT ![t] = "invoke"]
    /\ UNCHANGED <<failure_count, last_failure_time, last_success_time, lock,
                   cfgvars, error_stats, now, locals, invocations, sleeps,
                   reported, opened_at, fresh, calls>>
    /\ UNCHANGED <<rtvars, hvars, wtvars,
                   lsvars, mtvars>>


\* ------------------------------------------------------------ retry wrapper
DelayOneBased(c, att) ==
    IF c.exponential_backoff
       THEN IF c.base_delay * (2 ^ (att + 1)) < c.max_delay
               THEN c.base_delay * (2 ^ (att + 1)) ELSE c.max_delay
       ELSE c.base_delay

\* Lines 151-154: the delay after the failed attempt number att (0-based).
Delay(c, att) ==
    IF c.exponential_backoff
       THEN IF c.base_delay * (2 ^ att) < c.max_delay
               THEN c.base_delay * (2 ^ att) ELSE c.max_delay
       ELSE c.base_delay

\* Line 137: attempts remain after the failed attempt of thread t.
AttemptsRemain(t) ==
    /\ retry_config[t] # None
    /\ attempt[t] # retry_config[t][1].max_attempts - 1

RetrySleepReported(t) ==
    /\ pc' = [pc EXCEPT ![t] = "sleep"]
    /\ wake' = [wake EXCEPT ![t] = now + Delay(retry_config[t][1], attempt[t])]
    /\ sleeps' = [sleeps EXCEPT ![t] = @ + 1]
    /\ failure_count' = IF guarded[t] THEN failure_count + 1 ELSE failure_count
    /\ UNCHANGED <<state, last_failure_time, last_success_time, err>>

\* Lines 150-161: a failed attempt with attempts remaining: time.sleep(delay).
\* The wrapper runs inside CircuitBreaker.call's try block and does not touch
\* the breaker.
RetrySleep(t) ==
    /\ pc' = [pc EXCEPT ![t] = "sleep"]
    /\ wake' = [wake EXCEPT ![t] = now + Delay(retry_config[t][1], attempt[t])]
    /\ sleeps' = [sleeps EXCEPT ![t] = @ + 1]
    /\ UNCHANGED <<cbvars, err>>

\* The exception leaves the wrapped function: into call()'s except clause
\* (lines 61-63) when guarded and the exception matches expected_exception,
\* else into safe_execute's (line 219).
RaiseFromFunc(t, expected) ==
    /\ pc' = [pc EXCEPT ![t] = IF guarded[t] /\ expected
                                  THEN "fail_lock" ELSE "handle_error"]
    /\ err' = [err EXCEPT ![t] = FuncError]
    /\ UNCHANGED <<cbvars, wake, sleeps>>

\* Line 57 / 139 / 217: func(*args, **kwargs) runs once and raises an
\* exception.  retryable: it matches retry_exceptions (line 141); expected: it
\* matches the breaker's expected_exception (line 61).
InvokeFail(t) ==
    /\ pc[t] = "invoke"
    /\ invocations' = [invocations EXCEPT ![t] = @ + 1]
    /\ \E retryable \in BOOLEAN, expected \in BOOLEAN :
          IF retryable /\ AttemptsRemain(t)
             THEN RetrySleep(t) ELSE RaiseFromFunc(t, expected)
    /\ UNCHANGED <<lock, cfgvars, error_stats, now, guarded, retry_config,
                   attempt, admitted, reported, opened_at, fresh, calls>>
    /\ UNCHANGED <<rtvars, hvars, wtvars,
                   lsvars, mtvars>>

\* Line 57 / 139: func runs once and returns, inside the breaker: line 58 next.
InvokeOkGuarded(t) ==
    /\ pc[t] = "invoke"
    /\ guarded[t]
    /\ invocations' = [invocations EXCEPT ![t] = @ + 1]
    /\ pc' = [pc EXCEPT ![t] = "succ_lock"]
    /\ UNCHANGED <<cbvars, lock, cfgvars, error_stats, now, locals, admitted,
                   sleeps, reported, opened_at, fresh, calls>>
    /\ UNCHANGED <<rtvars, hvars, wtvars,
                   lsvars, mtvars>>

\* Line 217: func runs once and returns, no breaker: safe_execute returns.
InvokeOkDirect(t) ==
    /\ pc[t] = "invoke"
    /\ ~guarded[t]
    /\ pc' = [pc EXCEPT ![t] = "idle"]
    /\ Finished(t)
    /\ UNCHANGED <<cbvars, lock, cfgvars, error_stats, now, opened_at, fresh, calls>>
    /\ UNCHANGED <<rtvars, hvars, wtvars,
                   lsvars, mtvars>>

\* Line 161 returns: time.sleep(delay) is over, the loop takes the next attempt.
Wake(t) ==
    /\ pc[t] = "sleep"
    /\ now >= wake[t]
    /\ attempt' = [attempt EXCEPT ![t] = @ + 1]
    /\ wake' = [wake EXCEPT ![t] = 0]
    /\ pc' = [pc EXCEPT ![t] = "invoke"]
    /\ UNCHANGED <<cbvars, lock, cfgvars, error_stats, now, guarded,
                   retry_config, err, obs, opened_at, fresh, calls>>
    /\ UNCHANGED <<rtvars, hvars, wtvars,
                   lsvars, mtvars>>


\* ------------------------------------------- CircuitBreaker._on_success
\* Line 74: `with self.lock:` is entered.
OnSuccessAcquire(t) ==
    /\ pc[t] = "succ_lock"
    /\ lock = 0
    /\ lock' = t
    /\ pc' = [pc EXCEPT ![t] = "succ_body"]
    /\ UNCHANGED <<cbvars, cfgvars, error_stats, now, locals, obs, opened_at,
                   fresh, calls>>
    /\ UNCHANGED <<rtvars, hvars, wtvars,
                   lsvars, mtvars>>

\* Lines 75-80 and the release of the lock; call() then returns the result
\* (line 59) and safe_execute returns it (line 214).
OnSuccess(t) ==
    /\ pc[t] = "succ_body"
    /\ failure_count' = 0
    /\ last_success_time' = At(now)
    /\ state' = IF state = HALF_OPEN THEN CLOSED ELSE state
    /\ lock' = 0
    /\ fresh' = FALSE
    /\ pc' = [pc EXCEPT ![t] = "idle"]
    /\ Finished(t)
    /\ UNCHANGED <<last_failure_time, cfgvars, error_stats, now, opened_at,
                   calls>>
    /\ UNCHANGED <<rtvars, hvars, wtvars,
                   lsvars, mtvars>>

\* ------------------------------------------- CircuitBreaker._on_failure
\* Line 84: `with self.lock:` is entered.
OnFailureAcquire(t) ==
    /\ pc[t] = "fail_lock"
    /\ lock = 0
    /\ lock' = t
    /\ pc' = [pc EXCEPT ![t] = "fail_body"]
    /\ UNCHANGED <<cbvars, cfgvars, error_stats, now, locals, obs, opened_at,
                   fresh, calls>>
    /\ UNCHANGED <<rtvars, hvars, wtvars,
                   lsvars, mtvars>>

ThresholdExceeded(n) == n > failure_threshold

\* Line 93: `if self.failure_count >= self.config.failure_threshold`.
ThresholdReached(n) == n >= failure_threshold

\* Lines 85-94 and the release of the lock; call() re-raises (line 63) into
\* safe_execute's except clause.
OnFailure(t) ==
    /\ pc[t] = "fail_body"
    /\ failure_count' = failure_count + 1
    /\ last_failure_time' = At(now)
    /\ state' = IF ThresholdReached(failure_count + 1) THEN OPEN ELSE state
    /\ opened_at' = IF state # OPEN /\ ThresholdReached(failure_count + 1)
                       THEN At(now) ELSE opened_at
    /\ lock' = 0
    /\ pc' = [pc EXCEPT ![t] = "handle_error"]
    /\ reported' = [reported EXCEPT ![t] = @ + 1]
    /\ UNCHANGED <<last_success_time, cfgvars, error_stats, now, locals,
                   admitted, invocations, sleeps, fresh, calls>>
    /\ UNCHANGED <<rtvars, hvars, wtvars,
                   lsvars, mtvars>>

\* ------------------------------------------- ErrorHandler.handle_error
\* Lines 219-221 with 188-191: the error is counted by type under the
\* handler's lock and re-raised to safe_execute's caller.
HandleError(t) ==
    /\ pc[t] = "handle_error"
    /\ error_stats' = [error_stats EXCEPT ![err[t]] = @ + 1]
    /\ pc' = [pc EXCEPT ![t] = "idle"]
    /\ Finished(t)
    /\ UNCHANGED <<cbvars, lock, cfgvars, now, opened_at, fresh, calls>>
    /\ UNCHANGED <<rtvars, hvars, wtvars,
                   lsvars, mtvars>>

\* ------------------------------------------- CircuitBreaker.get_status
\* A thread that is not inside safe_execute enters get_status() (the health
\* check, through ErrorHandler.get_error_stats); the breaker's lock is not
\* taken.
GetStatusBegin(t) ==
    /\ pc[t] = "idle"
    /\ pc' = [pc EXCEPT ![t] = "status"]
    /\ UNCHANGED <<cbvars, lock, cfgvars, error_stats, now, locals, obs,
                   opened_at, fresh, calls>>
    /\ UNCHANGED <<rtvars, hvars, wtvars,
                   lsvars, mtvars>>

\* Lines 103-111: the fields are read into the returned dict.
GetStatus(t) ==
    /\ pc[t] = "status"
    /\ pc' = [pc EXCEPT ![t] = "idle"]
    /\ UNCHANGED <<cbvars, lock, cfgvars, error_stats, now, locals, obs,
                   opened_at, fresh, calls>>
    /\ UNCHANGED <<rtvars, hvars, wtvars,
                   lsvars, mtvars>>

Next ==
    \/ Tick
    \/ \E t \in Threads :
          \/ SafeExecute(t)
          \/ CheckState(t)
          \/ AttemptReset(t)
          \/ SetHalfOpen(t)
          \/ InvokeFail(t)
          \/ InvokeOkGuarded(t)
          \/ InvokeOkDirect(t)
          \/ Wake(t)
          \/ OnSuccessAcquire(t)
          \/ OnSuccess(t)
          \/ OnFailureAcquire(t)
          \/ OnFailure(t)
          \/ HandleError(t)
          \/ GetStatusBegin(t)
          \/ GetStatus(t)

Spec == Init /\ [][Next]_vars

\* ======================================================================
\* The retry wrapper on its own: retry(config)(func) called by one caller,
\* over the configurations below.  func is the environment: each
\* invocation returns, or raises an exception that matches
\* config.retry_exceptions or does not.  time.sleep(delay) is observed by
\* its argument.
\* ======================================================================
MaxRetryAttempts == 4
MaxBaseDelay == 3
MaxMaxDelay == 5

\* RetryConfig objects with max_attempts >= 1 (lines 117-127).
RetryConfigs ==
    [max_attempts : 1..MaxRetryAttempts, base_delay : 1..MaxBaseDelay,
     max_delay : 1..MaxMaxDelay, exponential_backoff : BOOLEAN]

\* What invocation number n of func did: kind is "ok" (it returned),
\* "retryable" (it raised an exception matching retry_exceptions) or "other"
\* (it raised one that does not).  The record stands for the returned value or
\* the exception object itself.
Outcome(n, kind) == [invocation |-> n, kind |-> kind]

CaughtAlways(o) == TRUE

\* Line 141: `except config.retry_exceptions as e` catches the exception.
Caught(o) == o.kind = "retryable"

IsPastLastAttempt(c, att) == att = c.max_attempts

\* Line 144: `if attempt == config.max_attempts - 1`.
IsLastAttempt(c, att) == att = c.max_attempts - 1

\* The decorated function is called: wrapper starts with last_exception =
\* None and the first value of `for attempt in range(config.max_attempts)`.
WrapperCall ==
    /\ rpc \in {"idle", "returned", "raised"}
    /\ \E c \in RetryConfigs : config' = <<c>>
    /\ rpc' = "call"
    /\ loop_attempt' = 0
    /\ last_exception' = None
    /\ outcomes' = <<>>
    /\ slept' = <<>>
    /\ retry_result' = None
    /\ UNCHANGED <<brvars, error_stats, now, hvars, wtvars,
                   lsvars, mtvars>>

\* Line 139: func returns; the wrapper returns its value.
FuncReturns ==
    /\ rpc = "call"
    /\ LET o == Outcome(Len(outcomes) + 1, "ok") IN
          /\ outcomes' = Append(outcomes, o)
          /\ retry_result' = <<"return", o>>
    /\ rpc' = "returned"
    /\ UNCHANGED <<config, loop_attempt, last_exception, slept>>
    /\ UNCHANGED <<brvars, error_stats, now, hvars, wtvars,
                   lsvars, mtvars>>

\* Lines 139-161: func raises.  An exception that line 141 does not catch
\* leaves the wrapper; a caught one is kept in last_exception and is re-raised
\* on the last attempt (line 148), else the delay is computed and
\* time.sleep(delay) is entered.
FuncRaises ==
    /\ rpc = "call"
    /\ \E kind \in {"retryable", "other"} :
          LET e == Outcome(Len(outcomes) + 1, kind) IN
          /\ outcomes' = Append(outcomes, e)
          /\ IF ~Caught(e)
                THEN /\ retry_result' = <<"raise", e>>
                     /\ rpc' = "raised"
                     /\ UNCHANGED <<last_exception, slept>>
                ELSE /\ last_exception' = <<e>>
                     /\ IF IsLastAttempt(config[1], loop_attempt)
                           THEN /\ retry_result' = <<"raise", e>>
                                /\ rpc' = "raised"
                                /\ UNCHANGED slept
                           ELSE /\ slept' = Append(slept,
                                                   Delay(config[1], loop_attempt))
                                /\ rpc' = "sleep"
                                /\ UNCHANGED retry_result
    /\ UNCHANGED <<config, loop_attempt>>
    /\ UNCHANGED <<brvars, error_stats, now, hvars, wtvars,
                   lsvars, mtvars>>

\* Line 161 returns: the for loop takes its next value, or, when range() is
\* exhausted, line 166 raises last_exception.
SleepReturns ==
    /\ rpc = "sleep"
    /\ IF loop_attempt + 1 < config[1].max_attempts
          THEN /\ loop_attempt' = loop_attempt + 1
               /\ rpc' = "call"
               /\ UNCHANGED retry_result
          ELSE /\ retry_result' = <<"raise", last_exception[1]>>
               /\ rpc' = "raised"
               /\ UNCHANGED loop_attempt
    /\ UNCHANGED <<config, last_exception, outcomes, slept>>
    /\ UNCHANGED <<brvars, error_stats, now, hvars, wtvars,
                   lsvars, mtvars>>

\* Construction, with the configuration of the breaker fixed (the breaker is
\* not called in the specifications that start here).
InitFixed == Init /\ failure_threshold = 1

RetryNext ==
    \/ WrapperCall
    \/ FuncReturns
    \/ FuncRaises
    \/ SleepReturns

RetrySpec == InitFixed /\ [][RetryNext]_vars

\* ======================================================================
\* ErrorHandler seen from its callers: the registry of breakers, the
\* lookup made by safe_execute (line 212) and handle_error's counting, one
\* step per statement.  What runs between the lookup and the outcome
\* (CircuitBreaker.call, the retry wrapper, func) is the environment here:
\* it returns, or raises an exception of one of the ErrorTypes.  A breaker
\* instance is represented by its identity (the number of its
\* construction); its fields live in the instance.
\* ======================================================================
MaxInstances == 3
MaxHandlerCalls == 3

\* Names passed as circuit_breaker_name (lines 253, 261).
BreakerNames == {"openai_api", "serper_api"}

\* d[k] = v on a dict.
DictSet(d, k, v) ==
    [x \in DOMAIN d \cup {k} |-> IF x = k THEN v ELSE d[x]]

\* d.get(k): None when k is not a key.
DictGet(d, k) == IF k \in DOMAIN d THEN <<d[k]>> ELSE None

\* An exception object: its type name and the call in which it was raised.
Error(type, t) == [type |-> type, raised_in |-> t]

\* add_circuit_breaker(name, config): a new CircuitBreaker is constructed and
\* stored under name, replacing the instance that was there.
AddCircuitBreaker(name) ==
    /\ instances < MaxInstances
    /\ instances' = instances + 1
    /\ circuit_breakers' = DictSet(circuit_breakers, name, instances + 1)
    /\ UNCHANGED <<handler_lock, hpc, cb_name, herr, count_read, ended,
                   surfaced, hcalls>>
    /\ UNCHANGED <<brvars, error_stats, now, rtvars, wtvars,
                   lsvars, mtvars>>

\* safe_execute(func, circuit_breaker_name=...) is entered.
SafeExecuteNamed(t) ==
    /\ hpc[t] = "idle"
    /\ hcalls < MaxHandlerCalls
    /\ hcalls' = hcalls + 1
    /\ \E nm \in {<<n>> : n \in BreakerNames} \cup {None} :
          cb_name' = [cb_name EXCEPT ![t] = nm]
    /\ hpc' = [hpc EXCEPT ![t] = "lookup"]
    /\ surfaced' = [surfaced EXCEPT ![t] = None]
    /\ UNCHANGED <<circuit_breakers, instances, handler_lock, herr,
                   count_read, ended>>
    /\ UNCHANGED <<brvars, error_stats, now, rtvars, wtvars,
                   lsvars, mtvars>>

\* Line 212: `circuit_breaker_name and circuit_breaker_name in
\* self.circuit_breakers`.
HasBreaker(nm) == nm # None /\ nm[1] \in DOMAIN circuit_breakers

\* Lines 212-217: with a registered name the function goes to
\* circuit_breaker.call (line 214), else it is called directly (line 217).
Lookup(t) ==
    /\ hpc[t] = "lookup"
    /\ hpc' = [hpc EXCEPT ![t] = IF HasBreaker(cb_name[t])
                                     THEN "cb_call" ELSE "direct"]
    /\ UNCHANGED <<circuit_breakers, instances, handler_lock, cb_name, herr,
                   count_read, ended, surfaced, hcalls>>
    /\ UNCHANGED <<brvars, error_stats, now, rtvars, wtvars,
                   lsvars, mtvars>>

\* Lines 214 / 217 return: safe_execute returns the result.
CallReturns(t) ==
    /\ hpc[t] \in {"cb_call", "direct"}
    /\ hpc' = [hpc EXCEPT ![t] = "idle"]
    /\ cb_name' = [cb_name EXCEPT ![t] = None]
    /\ UNCHANGED <<circuit_breakers, instances, handler_lock, herr,
                   count_read, ended, surfaced, hcalls>>
    /\ UNCHANGED <<brvars, error_stats, now, rtvars, wtvars,
                   lsvars, mtvars>>

\* Lines 214 / 217 raise; `except Exception as e` (line 219) catches it and
\* handle_error(e, ...) is entered.  CircuitBreakerOpenError comes from a
\* breaker only.
CallRaises(t) ==
    /\ hpc[t] \in {"cb_call", "direct"}
    /\ \E type \in ErrorTypes :
          /\ type = CircuitBreakerOpenError => hpc[t] = "cb_call"
          /\ herr' = [herr EXCEPT ![t] = <<Error(type, t)>>]
    /\ hpc' = [hpc EXCEPT ![t] = "he_lock"]
    /\ UNCHANGED <<circuit_breakers, instances, handler_lock, cb_name,
                   count_read, ended, surfaced, hcalls>>
    /\ UNCHANGED <<brvars, error_stats, now, rtvars, wtvars,
                   lsvars, mtvars>>

HandlerLockIgnored == TRUE

\* ErrorHandler.lock can be acquired.
HandlerLockFree == handler_lock = 0

\* Line 190: `with self.lock:` is entered.
HandleErrorAcquire(t) ==
    /\ hpc[t] = "he_lock"
    /\ HandlerLockFree
    /\ handler_lock' = t
    /\ hpc' = [hpc EXCEPT ![t] = "he_read"]
    /\ UNCHANGED <<circuit_breakers, instances, cb_name, herr, count_read,
                   ended, surfaced, hcalls>>
    /\ UNCHANGED <<brvars, error_stats, now, rtvars, wtvars,
                   lsvars, mtvars>>

\* Line 191, right-hand side: self.error_stats.get(error_type, 0).
HandleErrorRead(t) ==
    /\ hpc[t] = "he_read"
    /\ count_read' = [count_read EXCEPT ![t] = error_stats[herr[t][1].type]]
    /\ hpc' = [hpc EXCEPT ![t] = "he_write"]
    /\ UNCHANGED <<circuit_breakers, instances, handler_lock, cb_name, herr,
                   ended, surfaced, hcalls>>
    /\ UNCHANGED <<brvars, error_stats, now, rtvars, wtvars,
                   lsvars, mtvars>>

\* Line 191, assignment: self.error_stats[error_type] = ... + 1; the lock is
\* released (the logging of lines 193-197 changes no state).
HandleErrorWrite(t) ==
    /\ hpc[t] = "he_write"
    /\ error_stats' = [error_stats EXCEPT ![herr[t][1].type] = count_read[t] + 1]
    /\ handler_lock' = 0
    /\ hpc' = [hpc EXCEPT ![t] = "he_raise"]
    /\ UNCHANGED <<circuit_breakers, instances, cb_name, herr, count_read,
                   ended, surfaced, hcalls>>
    /\ UNCHANGED <<brvars, now, rtvars, wtvars,
                   lsvars, mtvars>>

\* Line 221: `raise` re-raises the caught exception to safe_execute's caller.
Reraise(t) ==
    /\ hpc[t] = "he_raise"
    /\ surfaced' = [surfaced EXCEPT ![t] = herr[t]]
    /\ ended' = [ended EXCEPT ![herr[t][1].type] = @ + 1]
    /\ hpc' = [hpc EXCEPT ![t] = "idle"]
    /\ cb_name' = [cb_name EXCEPT ![t] = None]
    /\ herr' = [herr EXCEPT ![t] = None]
    /\ count_read' = [count_read EXCEPT ![t] = 0]
    /\ UNCHANGED <<circuit_breakers, instances, handler_lock, hcalls>>
    /\ UNCHANGED <<brvars, error_stats, now, rtvars, wtvars,
                   lsvars, mtvars>>

HandlerNext ==
    \/ \E name \in BreakerNames : AddCircuitBreaker(name)
    \/ \E t \in Threads :
          \/ SafeExecuteNamed(t)
          \/ Lookup(t)
          \/ CallReturns(t)
          \/ CallRaises(t)
          \/ HandleErrorAcquire(t)
          \/ HandleErrorRead(t)
          \/ HandleErrorWrite(t)
          \/ Reraise(t)

HandlerSpec == InitFixed /\ [][HandlerNext]_vars

\* ======================================================================
\* WorkflowTracker (utils/workflow_tracker.py), called concurrently by the
\* worker threads.  One step to enter a method (its arguments are chosen;
\* cleanup_inactive_workflows reads the clock there, line 76, before it
\* takes the lock), one step to acquire self._lock, then one step per
\* statement group inside the `with self._lock:` block; the last one
\* releases the lock and returns.  time.time() is the clock `now`.
\* ======================================================================
MaxInactive == 1

WorkflowIds == {"wf-1", "wf-2"}
Listeners == {"L", "L2"}

\* Values returned to the callers: a bool, an int (a list, for comparison).
PyBool(b) == <<"bool", b>>
PyInt(n) == <<"int", n>>
PyList(ids) == <<"list", ids>>

DictKeep(d, k) == d

\* del d[k] / d.pop(k, None) on a dict.
DictDel(d, k) == [x \in DOMAIN d \ {k} |-> d[x]]

\* d.pop(k, None) for every k of ks.
DictDelAll(d, ks) == [x \in DOMAIN d \ ks |-> d[x]]

\* is_workflow_active(workflow_id), lines 53-56.
is_workflow_active(id) == id \in active_workflows

\* get_workflow_listener(workflow_id), lines 69-72.
get_workflow_listener(id) == DictGet(workflow_listeners, id)

\* The call of thread t returns value: its locals are gone; its arguments
\* stay on record until the thread's next call.
TrackerReturn(t, value) ==
    /\ wpc' = [wpc EXCEPT ![t] = "idle"]
    /\ returned' = [returned EXCEPT ![t] = value]
    /\ current_time' = [current_time EXCEPT ![t] = 0]
    /\ to_remove' = [to_remove EXCEPT ![t] = {}]
    /\ UNCHANGED <<workflow_id, listener, max_inactive_time>>

\* A method is entered with the arguments workflow_id, listener and
\* max_inactive_time; id and l are <<value>>, or None (and m is 0) for an
\* argument the method does not have.
TrackerEnter(t, label, id, l, m) ==
    /\ wpc[t] = "idle"
    /\ wpc' = [wpc EXCEPT ![t] = label]
    /\ workflow_id' = [workflow_id EXCEPT ![t] = id]
    /\ listener' = [listener EXCEPT ![t] = l]
    /\ max_inactive_time' = [max_inactive_time EXCEPT ![t] = m]
    /\ returned' = [returned EXCEPT ![t] = None]

\* register_workflow(workflow_id, listener) is called.
RegisterWorkflow(t) ==
    /\ \E id \in WorkflowIds, l \in Listeners :
          TrackerEnter(t, "reg_lock", <<id>>, <<l>>, 0)
    /\ UNCHANGED <<active_workflows, workflow_listeners,
                   last_workflow_activity, tracker_lock, current_time,
                   to_remove>>
    /\ UNCHANGED <<brvars, error_stats, now, rtvars, hvars,
                   lsvars, mtvars>>

\* unregister_workflow(workflow_id) is called.
UnregisterWorkflow(t) ==
    /\ \E id \in WorkflowIds : TrackerEnter(t, "unreg_lock", <<id>>, None, 0)
    /\ UNCHANGED <<active_workflows, workflow_listeners,
                   last_workflow_activity, tracker_lock, current_time,
                   to_remove>>
    /\ UNCHANGED <<brvars, error_stats, now, rtvars, hvars,
                   lsvars, mtvars>>

\* update_workflow_activity(workflow_id) is called.
UpdateWorkflowActivity(t) ==
    /\ \E id \in WorkflowIds : TrackerEnter(t, "upd_lock", <<id>>, None, 0)
    /\ UNCHANGED <<active_workflows, workflow_listeners,
                   last_workflow_activity, tracker_lock, current_time,
                   to_remove>>
    /\ UNCHANGED <<brvars, error_stats, now, rtvars, hvars,
                   lsvars, mtvars>>

\* cleanup_inactive_workflows(max_inactive_time) is called; lines 76-77:
\* current_time = time.time(), to_remove = [].
CleanupInactiveWorkflows(t) ==
    /\ \E m \in 0..MaxInactive : TrackerEnter(t, "cl_lock", None, None, m)
    /\ current_time' = [current_time EXCEPT ![t] = now]
    /\ to_remove' = [to_remove EXCEPT ![t] = {}]
    /\ UNCHANGED <<active_workflows, workflow_listeners,
                   last_workflow_activity, tracker_lock>>
    /\ UNCHANGED <<brvars, error_stats, now, rtvars, hvars,
                   lsvars, mtvars>>

TrackerLockIgnored == TRUE

\* self._lock can be acquired.
TrackerLockFree == tracker_lock = 0

\* The first statement inside each method's `with self._lock:` block.
AfterLock(label) ==
    CASE label = "reg_lock" -> "reg_check"
      [] label = "unreg_lock" -> "unreg_check"
      [] label = "upd_lock" -> "upd"
      [] label = "cl_lock" -> "cl_scan"

\* `with self._lock:` is entered (lines 23, 38, 65, 79).
TrackerAcquire(t) ==
    /\ wpc[t] \in {"reg_lock", "unreg_lock", "upd_lock", "cl_lock"}
    /\ TrackerLockFree
    /\ tracker_lock' = t
    /\ wpc' = [wpc EXCEPT ![t] = AfterLock(wpc[t])]
    /\ UNCHANGED <<active_workflows, workflow_listeners,
                   last_workflow_activity, workflow_id, listener,
                   max_inactive_time, current_time, to_remove, returned>>
    /\ UNCHANGED <<brvars, error_stats, now, rtvars, hvars,
                   lsvars, mtvars>>

NeverRegistered(id) == FALSE

\* Line 24: `if workflow_id in self._active_workflows`.
AlreadyRegistered(id) == id \in active_workflows

\* Lines 24-26: a registered id: return False (the lock is released).
RegisterCheck(t) ==
    /\ wpc[t] = "reg_check"
    /\ IF AlreadyRegistered(workflow_id[t][1])
          THEN /\ TrackerReturn(t, PyBool(FALSE))
               /\ tracker_lock' = 0
          ELSE /\ wpc' = [wpc EXCEPT ![t] = "reg_add"]
               /\ UNCHANGED <<tracker_lock, workflow_id, listener,
                              max_inactive_time, current_time, to_remove,
                              returned>>
    /\ UNCHANGED <<active_workflows, workflow_listeners,
                   last_workflow_activity>>
    /\ UNCHANGED <<brvars, error_stats, now, rtvars, hvars,
                   lsvars, mtvars>>

\* Lines 28-34: the id is added with its listener and the current time;
\* return True.
RegisterAdd(t) ==
    /\ wpc[t] = "reg_add"
    /\ active_workflows' = active_workflows \cup {workflow_id[t][1]}
    /\ workflow_listeners' =
          DictSet(workflow_listeners, workflow_id[t][1], listener[t][1])
    /\ last_workflow_activity' =
          DictSet(last_workflow_activity, workflow_id[t][1], now)
    /\ tracker_lock' = 0
    /\ TrackerReturn(t, PyBool(TRUE))
    /\ UNCHANGED <<brvars, error_stats, now, rtvars, hvars,
                   lsvars, mtvars>>

\* Lines 39-41: an id that is not registered: return False.
UnregisterCheck(t) ==
    /\ wpc[t] = "unreg_check"
    /\ IF workflow_id[t][1] \notin active_workflows
          THEN /\ TrackerReturn(t, PyBool(FALSE))
               /\ tracker_lock' = 0
          ELSE /\ wpc' = [wpc EXCEPT ![t] = "unreg_remove"]
               /\ UNCHANGED <<tracker_lock, workflow_id, listener,
                              max_inactive_time, current_time, to_remove,
                              returned>>
    /\ UNCHANGED <<active_workflows, workflow_listeners,
                   last_workflow_activity>>
    /\ UNCHANGED <<brvars, error_stats, now, rtvars, hvars,
                   lsvars, mtvars>>

\* Lines 43-51: the id is removed from the three collections; return True.
\* set.remove raises KeyError for an id that is not in the set (the `with`
\* statement releases the lock).
UnregisterRemove(t) ==
    /\ wpc[t] = "unreg_remove"
    /\ IF workflow_id[t][1] \in active_workflows
          THEN /\ active_workflows' = active_workflows \ {workflow_id[t][1]}
               /\ workflow_listeners' =
                     DictDel(workflow_listeners, workflow_id[t][1])
               /\ last_workflow_activity' =
                     DictDel(last_workflow_activity, workflow_id[t][1])
               /\ TrackerReturn(t, PyBool(TRUE))
          ELSE /\ UNCHANGED <<active_workflows, workflow_listeners,
                              last_workflow_activity>>
               /\ TrackerReturn(t, <<"raise", "KeyError">>)
    /\ tracker_lock' = 0
    /\ UNCHANGED <<brvars, error_stats, now, rtvars, hvars,
                   lsvars, mtvars>>

ActiveAlways(id) == TRUE

\* Line 66: `if workflow_id in self._active_workflows`.
ActiveNow(id) == id \in active_workflows

\* Lines 66-67: the activity time of a registered id becomes the current
\* time; the method returns None.
UpdateActivity(t) ==
    /\ wpc[t] = "upd"
    /\ last_workflow_activity' =
          IF ActiveNow(workflow_id[t][1])
             THEN DictSet(last_workflow_activity, workflow_id[t][1], now)
             ELSE last_workflow_activity
    /\ tracker_lock' = 0
    /\ TrackerReturn(t, None)
    /\ UNCHANGED <<active_workflows, workflow_listeners>>
    /\ UNCHANGED <<brvars, error_stats, now, rtvars, hvars,
                   lsvars, mtvars>>

InactiveOrEqual(cur, last, max) == cur - last >= max

\* Line 81: `current_time - last_activity > max_inactive_time`.
Inactive(cur, last, max) == cur - last > max

\* Lines 80-82: the ids to remove are collected.
CleanupScan(t) ==
    /\ wpc[t] = "cl_scan"
    /\ to_remove' = [to_remove EXCEPT ![t] =
          {id \in DOMAIN last_workflow_activity :
              Inactive(current_time[t], last_workflow_activity[id],
                       max_inactive_time[t])}]
    /\ wpc' = [wpc EXCEPT ![t] = "cl_remove"]
    /\ UNCHANGED <<active_workflows, workflow_listeners,
                   last_workflow_activity, tracker_lock, workflow_id,
                   listener, max_inactive_time, current_time, returned>>
    /\ UNCHANGED <<brvars, error_stats, now, rtvars, hvars,
                   lsvars, mtvars>>

\* Lines 84-90: the collected ids are removed from the three collections, the
\* lock is released and len(to_remove) is returned.
CleanupRemove(t) ==
    /\ wpc[t] = "cl_remove"
    /\ active_workflows' = active_workflows \ to_remove[t]
    /\ workflow_listeners' = DictDelAll(workflow_listeners, to_remove[t])
    /\ last_workflow_activity' =
          DictDelAll(last_workflow_activity, to_remove[t])
    /\ tracker_lock' = 0
    /\ TrackerReturn(t, PyInt(Cardinality(to_remove[t])))
    /\ UNCHANGED <<brvars, error_stats, now, rtvars, hvars,
                   lsvars, mtvars>>

TrackerNext ==
    \/ Tick
    \/ \E t \in Threads :
          \/ RegisterWorkflow(t)
          \/ UnregisterWorkflow(t)
          \/ UpdateWorkflowActivity(t)
          \/ CleanupInactiveWorkflows(t)
          \/ TrackerAcquire(t)
          \/ RegisterCheck(t)
          \/ RegisterAdd(t)
          \/ UnregisterCheck(t)
          \/ UnregisterRemove(t)
          \/ UpdateActivity(t)
          \/ CleanupScan(t)
          \/ CleanupRemove(t)

TrackerSpec == InitFixed /\ [][TrackerNext]_vars

\* ======================================================================
\* The Prometheus metrics (utils/prometheus_metrics.py).  The registry maps
\* a metric child, <<metric, label values>>, to its value: a number for a
\* Counter or a Gauge, [count, sum] for a Histogram.  A child exists from
\* its first use (.labels(...)); Counter.inc, Gauge.set and
\* Histogram.observe are prometheus_client's.
\* ======================================================================
\* The value of the child, zero for one that does not exist yet.
Child(reg, metric, labels, zero) ==
    IF <<metric, labels>> \in DOMAIN reg THEN reg[<<metric, labels>>] ELSE zero

\* metric.labels(...).inc()
Inc(reg, metric, labels) ==
    DictSet(reg, <<metric, labels>>, Child(reg, metric, labels, 0) + 1)

\* metric.labels(...).set(value)
Set(reg, metric, labels, value) == DictSet(reg, <<metric, labels>>, value)

\* metric.labels(...).observe(value)
Observe(reg, metric, labels, value) ==
    LET h == Child(reg, metric, labels, [count |-> 0, sum |-> 0])
    IN  DictSet(reg, <<metric, labels>>,
                [count |-> h.count + 1, sum |-> h.sum + value])

\* Line 391 (414, 433).
Status(success) == IF success THEN "success" ELSE "failure"

\* track_agent_execution(agent_name, duration, success, error_type), lines
\* 378-401; error_type is None or <<type>>.
track_agent_execution(reg, agent_name, duration, success, error_type) ==
    LET observed == Observe(reg, "AGENT_EXECUTION_TIME",
                            <<agent_name, Status(success)>>, duration)
        counted == Inc(observed, "AGENT_EXECUTIONS_TOTAL",
                       <<agent_name, Status(success)>>)
    IN  IF ~success /\ error_type # None
           THEN Inc(counted, "AGENT_ERRORS_TOTAL",
                    <<agent_name, error_type[1]>>)
           ELSE counted

\* ======================================================================
\* The monitoring listeners (core/listeners) and the workflows that own
\* them (crew.py).  Every MonitoringEventListener subscribes its handlers
\* to the one crewai_event_bus when it is constructed (setup_listeners),
\* and nothing unsubscribes them: the bus calls the handler of every
\* listener constructed so far for every event, whichever workflow's
\* execution emitted it.  The handlers are those of AgentListener
\* (agent_listener.py); CrewListener's and TaskListener's have the same
\* shape.  A listener is identified by its workflow_id, a uuid4 (crew.py
\* line 101) that no other workflow has.
\*
\* The tracker's methods run under its lock from their first statement to
\* their last, so here each call of one is a single step.  One handler
\* invocation is in progress at a time; a workflow is ended, or the
\* tracker swept, by other threads while it runs.
\* ======================================================================
AgentNames == {"fetcher_agent"}

\* AgentExecutionStartedEvent, AgentExecutionCompletedEvent.
Events == {"started", "completed"}

\* BaseMonitoringListener.__init__, base_listener.py lines 19-24.
NewListener ==
    [is_active |-> TRUE, start_times |-> <<>>, execution_data |-> <<>>]

\* _get_step_id, base_listener.py lines 36-39.
get_step_id(step_type, step_name, id) == <<step_type, step_name, id>>

\* The variables of a tracker method call in progress: none is, here.
wtcalls == <<tracker_lock, wpc, workflow_id, listener, max_inactive_time,
             current_time, to_remove, returned>>

\* crew.py lines 197-213: the crew of a new workflow is built.  Its id is
\* not registered (line 200), so a MonitoringEventListener is constructed
\* for it, becomes global_event_listener and is registered with the tracker
\* (workflow_tracker.py lines 23-34).
CreateListener(id) ==
    /\ id \notin DOMAIN listeners
    /\ ~is_workflow_active(id)
    /\ listeners' = DictSet(listeners, id, NewListener)
    /\ global_event_listener' = <<id>>
    /\ active_workflows' = active_workflows \cup {id}
    /\ workflow_listeners' = DictSet(workflow_listeners, id, id)
    /\ last_workflow_activity' = DictSet(last_workflow_activity, id, now)
    /\ UNCHANGED <<handler, wtcalls, mtvars>>
    /\ UNCHANGED <<brvars, error_stats, now, rtvars, hvars>>

\* MonitoringEventListener.cleanup, monitoring_listener.py lines 33-45: the
\* tracking data of its listeners is cleared (their is_active is not
\* touched: the flag set at line 35 is the MonitoringEventListener's own).
Cleanup(l) == [l EXCEPT !.start_times = <<>>, !.execution_data = <<>>]

\* end_workflow, crew.py lines 108-122: the listener is cleaned up if it is
\* the global one, and the workflow is unregistered (workflow_tracker.py
\* lines 38-51; an id that is not registered is left alone).
EndWorkflow(id) ==
    /\ id \in DOMAIN listeners
    /\ IF global_event_listener = <<id>>
          THEN /\ listeners' = DictSet(listeners, id, Cleanup(listeners[id]))
               /\ global_event_listener' = None
          ELSE UNCHANGED <<listeners, global_event_listener>>
    /\ active_workflows' = active_workflows \ {id}
    /\ workflow_listeners' =
          IF id \in active_workflows
             THEN DictDel(workflow_listeners, id) ELSE workflow_listeners
    /\ last_workflow_activity' =
          IF id \in active_workflows
             THEN DictDel(last_workflow_activity, id)
             ELSE last_workflow_activity
    /\ UNCHANGED <<handler, wtcalls, mtvars>>
    /\ UNCHANGED <<brvars, error_stats, now, rtvars, hvars>>

\* cleanup_inactive_workflows(max_inactive_time), workflow_tracker.py lines
\* 76-90, called by a maintenance thread.
Sweep(m) ==
    LET stale == {id \in DOMAIN last_workflow_activity :
                     Inactive(now, last_workflow_activity[id], m)}
    IN  /\ stale # {}
        /\ active_workflows' = active_workflows \ stale
        /\ workflow_listeners' = DictDelAll(workflow_listeners, stale)
        /\ last_workflow_activity' = DictDelAll(last_workflow_activity, stale)
        /\ UNCHANGED <<lsvars, wtcalls, mtvars>>
        /\ UNCHANGED <<brvars, error_stats, now, rtvars, hvars>>

\* The handler invocation ends.
HandlerReturns(outcome) ==
    handler' = [handler EXCEPT !.pc = "returned", !.outcome = outcome]

\* The bus calls listener l's handler for an event emitted by the execution
\* of workflow origin's crew (the event may arrive late, after the workflow
\* has ended).
Deliver(l, origin, event, agent) ==
    /\ handler.pc \in {"idle", "returned"}
    /\ l \in DOMAIN listeners
    /\ origin \in DOMAIN listeners
    /\ handler' = [pc |-> "entry", self |-> l, origin |-> origin,
                   event |-> event, agent_name |-> agent, outcome |-> ""]
    /\ UNCHANGED <<listeners, global_event_listener, wtvars, mtvars>>
    /\ UNCHANGED <<brvars, error_stats, now, rtvars, hvars>>

EveryListenerLive(l) == TRUE

\* agent_listener.py lines 63 and 67 (142-148): the listener is active and
\* its workflow is registered with the tracker.
ListenerLive(l) == listeners[l].is_active /\ is_workflow_active(l)

\* Lines 63-69 (142-148): the event is dropped unless the listener is live.
HandlerEntry ==
    /\ handler.pc = "entry"
    /\ IF ListenerLive(handler.self)
          THEN handler' = [handler EXCEPT !.pc = "touch"]
          ELSE HandlerReturns("inactive")
    /\ UNCHANGED <<listeners, global_event_listener, wtvars, mtvars>>
    /\ UNCHANGED <<brvars, error_stats, now, rtvars, hvars>>

\* Line 72 (151): update_workflow_activity(self.workflow_id),
\* workflow_tracker.py lines 65-67.
HandlerTouch ==
    /\ handler.pc = "touch"
    /\ last_workflow_activity' =
          IF handler.self \in active_workflows
             THEN DictSet(last_workflow_activity, handler.self, now)
             ELSE last_workflow_activity
    /\ handler' = [handler EXCEPT !.pc = "process"]
    /\ UNCHANGED <<listeners, global_event_listener, active_workflows,
                   workflow_listeners, wtcalls, mtvars>>
    /\ UNCHANGED <<brvars, error_stats, now, rtvars, hvars>>

\* on_agent_execution_started, lines 79-137: a step that is being tracked
\* is skipped; otherwise _start_tracking records the clock and
\* execution_data the status.
HandlerStarted ==
    /\ handler.pc = "process"
    /\ handler.event = "started"
    /\ LET self == listeners[handler.self]
           step_id == get_step_id("agent", handler.agent_name, handler.self)
       IN  IF step_id \in DOMAIN self.start_times
              THEN /\ HandlerReturns("skipped")
                   /\ UNCHANGED listeners
              ELSE /\ listeners' = DictSet(listeners, handler.self,
                         [self EXCEPT
                            !.start_times = DictSet(@, step_id, now),
                            !.execution_data = DictSet(@, step_id, "started")])
                   /\ HandlerReturns("processed")
    /\ UNCHANGED <<global_event_listener, wtvars, mtvars>>
    /\ UNCHANGED <<brvars, error_stats, now, rtvars, hvars>>

\* on_agent_execution_completed, lines 160-230: a step that is not being
\* tracked, or is already completed, is skipped; otherwise _end_tracking
\* gives the duration and forgets the start time, execution_data (if it
\* has the step) gets the status, and a duration above 0 is passed to
\* metrics.track_agent_execution.
HandlerCompleted ==
    /\ handler.pc = "process"
    /\ handler.event = "completed"
    /\ LET self == listeners[handler.self]
           step_id == get_step_id("agent", handler.agent_name, handler.self)
       IN  IF \/ step_id \notin DOMAIN self.start_times
              \/ /\ step_id \in DOMAIN self.execution_data
                 /\ self.execution_data[step_id] = "completed"
              THEN /\ HandlerReturns("skipped")
                   /\ UNCHANGED <<listeners, registry>>
              ELSE LET duration == now - self.start_times[step_id]
                   IN  /\ listeners' = DictSet(listeners, handler.self,
                             [self EXCEPT
                                !.start_times = DictDel(@, step_id),
                                !.execution_data =
                                   IF step_id \in DOMAIN @
                                      THEN DictSet(@, step_id, "completed")
                                      ELSE @])
                       /\ registry' =
                             IF duration > 0
                                THEN track_agent_execution(registry,
                                        handler.agent_name, duration, TRUE,
                                        None)
                                ELSE registry
                       /\ HandlerReturns("processed")
    /\ UNCHANGED <<global_event_listener, wtvars, pstvars, ctvars, stvars>>
    /\ UNCHANGED <<brvars, error_stats, now, rtvars, hvars>>

ListenerNext ==
    \/ Tick
    \/ \E id \in WorkflowIds : CreateListener(id)
    \/ \E id \in WorkflowIds : EndWorkflow(id)
    \/ \E m \in 0..MaxInactive : Sweep(m)
    \/ \E l \in WorkflowIds, origin \in WorkflowIds, event \in Events,
          agent \in AgentNames : Deliver(l, origin, event, agent)
    \/ HandlerEntry
    \/ HandlerTouch
    \/ HandlerStarted
    \/ HandlerCompleted

ListenerSpec == InitFixed /\ [][ListenerNext]_vars

\* ======================================================================
\* Persistence of the metrics (utils/metrics_persistence.py and
\* PrometheusMetrics._save_metrics / _restore_metrics) over the life of the
\* process: it starts (PrometheusMetrics.__init__ restores), records
\* metrics, saves from the periodic thread and at shutdown, stops at any
\* point, and starts again.  scripts/restore_metrics.py restores once more
\* into the running process.
\*
\* JSON values are tagged: <<"number", n>>, <<"string", s>>, <<"null">>,
\* <<"array", items>> and, for a document, <<"object", timestamp, metrics>>
\* with <<"missing">> for an absent key.  A saved sample is
\* <<"sample", name, labels, value>>; its name is <<base, suffix>>, so that
\* name.endswith(suffix) is a comparison, and its labels are the label
\* values in the metric's order.  The samples of a list are distinct and
\* each is restored on its own, so a list of samples is kept as the set of
\* them.  Counter values are whole numbers (only inc() is applied to them),
\* which int() and the number formats leave as they are; the _created
\* samples, which _restore_metrics skips, are left out.
\*
\* time.time() is Epoch + now, in seconds.
\* ======================================================================
MaxTracked == 1
MaxDuration == 2
Epoch == 100000
SecondsPerHour == 3600
DefaultMaxAgeHours == 24

time_time == Epoch + now

Savers == {"periodic", "shutdown"}

\* Lines 30-100: the metrics by kind, and the names of their samples.
Counters ==
    {"AGENT_EXECUTIONS_TOTAL", "AGENT_ERRORS_TOTAL", "TASK_EXECUTIONS_TOTAL",
     "WORKFLOW_EXECUTIONS_TOTAL", "EVALUATION_COUNT"}
Histograms ==
    {"AGENT_EXECUTION_TIME", "TASK_EXECUTION_TIME", "WORKFLOW_DURATION",
     "EVALUATION_SCORE"}
Gauges == {"WORKFLOW_SUCCESS_RATE"}

Base(metric) ==
    CASE metric = "AGENT_EXECUTION_TIME" ->
            "patent_agent_execution_duration_seconds"
      [] metric = "AGENT_EXECUTIONS_TOTAL" -> "patent_agent_executions"
      [] metric = "AGENT_ERRORS_TOTAL" -> "patent_agent_errors"
      [] metric = "TASK_EXECUTION_TIME" ->
            "patent_task_execution_duration_seconds"
      [] metric = "TASK_EXECUTIONS_TOTAL" -> "patent_task_executions"
      [] metric = "WORKFLOW_DURATION" -> "patent_workflow_duration_seconds"
      [] metric = "WORKFLOW_EXECUTIONS_TOTAL" -> "patent_workflow_executions"
      [] metric = "WORKFLOW_SUCCESS_RATE" -> "patent_workflow_success"
      [] metric = "EVALUATION_SCORE" -> "patent_evaluation_score"
      [] metric = "EVALUATION_COUNT" -> "patent_evaluations"

Sample(name, labels, value) == <<"sample", name, labels, value>>

\* generate_latest(): the samples of one child.  A histogram has cumulative
\* buckets (the last one, le="+Inf", counts every observation), a count and
\* a sum.
SamplesOf(metric, labels, v) ==
    CASE metric \in Counters ->
            {Sample(<<Base(metric), "_total">>, labels, v)}
      [] metric \in Histograms ->
            {Sample(<<Base(metric), "_bucket">>, Append(labels, "+Inf"),
                    v.count),
             Sample(<<Base(metric), "_count">>, labels, v.count),
             Sample(<<Base(metric), "_sum">>, labels, v.sum)}
      [] metric \in Gauges ->
            {Sample(<<Base(metric), "_rate">>, labels, v)}

\* generate_latest(), lines 153 and 241.
generate_latest(reg) ==
    UNION {SamplesOf(k[1], k[2], reg[k]) : k \in DOMAIN reg}

\* name.endswith(suffix)
EndsWith(name, suffix) == name[2] = suffix

\* name.startswith('patent_evaluation')
IsEvaluation(name) ==
    name[1] \in {"patent_evaluation_score", "patent_evaluations",
                 "patent_evaluation_duration_seconds"}

\* _save_metrics, lines 162-194: the samples that are saved are all but
\* the buckets and the evaluation metrics.
metrics_list(reg) ==
    {m \in generate_latest(reg) :
        /\ ~EndsWith(m[2], "_bucket")
        /\ ~(\/ IsEvaluation(m[2])
             \/ m[2] = <<"patent_evaluations", "_total">>
             \/ m[2] = <<"patent_overall_evaluation_score", "">>)}

\* track_workflow(workflow_id, duration, success), lines 422-443.
track_workflow(reg, id, duration, success) ==
    LET observed == Observe(reg, "WORKFLOW_DURATION",
                            <<id, Status(success)>>, duration)
        counted == Inc(observed, "WORKFLOW_EXECUTIONS_TOTAL",
                       <<id, Status(success)>>)
    IN  Set(counted, "WORKFLOW_SUCCESS_RATE", <<id>>,
            IF success THEN 1 ELSE 0)

\* track_metric_score(workflow_id, metric_name, score), lines 462-477.
track_metric_score(reg, id, metric_name, score) ==
    Inc(Observe(reg, "EVALUATION_SCORE", <<id, metric_name>>, score),
        "EVALUATION_COUNT", <<metric_name>>)

\* ------------------------------------------------------------- the file
\* The file is absent (None) or <<content>>.  What the program writes is
\* <<"written", first, second>>: the two halves of the text of a save_data,
\* each None (not there) or <<save_data>>, the save whose text the half
\* belongs to (the document of lines 52-55).  What another program leaves
\* there is <<"foreign", text, the time it was written>>.
Missing == <<"missing">>
Null == <<"null">>
Num(n) == <<"number", n>>
Object(timestamp, metrics) == <<"object", timestamp, metrics>>

Written(first, second) == <<"written", first, second>>

\* Texts another program can leave in the file, and what json.load makes of
\* them (at the clock value they were written at).
ForeignTexts ==
    {"not json", "[]", "{}", "{timestamp: now, metrics: 5}",
     "{timestamp: now, metrics: [junk]}",
     "{timestamp: yesterday, metrics: []}"}

Foreign(text, at) == <<"foreign", text, at>>

Raise(type) == <<"raise", type>>
Return(value) == <<"return", value>>

ForeignDocument(text, at) ==
    CASE text = "[]" -> <<"array", {}>>
      [] text = "{}" -> Object(Missing, Missing)
      [] text = "{timestamp: now, metrics: 5}" -> Object(Num(at), Num(5))
      [] text = "{timestamp: now, metrics: [junk]}" ->
            Object(Num(at), <<"array", {<<"string", "junk">>}>>)
      [] text = "{timestamp: yesterday, metrics: []}" ->
            Object(<<"string", "yesterday">>, <<"array", {}>>)

\* The file holds one whole text, written by one save.
Complete(file) ==
    /\ file # None
    /\ file[1][1] = "written"
    /\ file[1][2] # None
    /\ file[1][2] = file[1][3]

\* `if not self.persistence_file.exists()` followed by open and json.load
\* (lines 78-83, 103-108): what they can give for the file.  Two halves
\* written by different saves are no JSON text, unless the texts have the
\* same length and the halves happen to fit.
Read(file) ==
    IF file = None THEN {<<"absent">>}
    ELSE LET content == file[1]
         IN  IF content[1] = "foreign"
                THEN IF content[2] = "not json"
                        THEN {Raise("JSONDecodeError")}
                        ELSE {Return(ForeignDocument(content[2], content[3]))}
             ELSE IF content[2] = None \/ content[3] = None
                THEN {Raise("JSONDecodeError")}
             ELSE IF content[2] = content[3]
                THEN {Return(content[2][1])}
             ELSE {Raise("JSONDecodeError"),
                   Return(Object(content[2][1][2], content[3][1][3]))}

NoExcept(result, default) == result

\* try: ... except Exception: return default
Except(result, default) ==
    IF result[1] = "raise" THEN Return(default) ELSE result

\* load_metrics, lines 76-89, for what reading the file gave: the value
\* under "metrics" ({} without the key), or None.  The returned value is
\* None or <<JSON value>>.
load_metrics(read) ==
    Except(IF read[1] = "absent" THEN Return(None)
           ELSE IF read[1] = "raise" THEN read
           ELSE LET data == read[2]
                IN  IF data[1] # "object" THEN Raise("AttributeError")
                    ELSE IF data[3] = Missing
                       THEN Return(<<Object(Missing, Missing)>>)
                    ELSE IF data[3] = Null THEN Return(None)
                    ELSE Return(<<data[3]>>),
           None)

\* get_metrics_age, lines 101-114: None, or <<the age in seconds>>.
get_metrics_age(read, clock) ==
    Except(IF read[1] = "absent" THEN Return(None)
           ELSE IF read[1] = "raise" THEN read
           ELSE LET data == read[2]
                IN  IF data[1] # "object" THEN Raise("AttributeError")
                    ELSE LET saved_timestamp ==
                                IF data[2] = Missing THEN Num(0) ELSE data[2]
                         IN  IF saved_timestamp[1] # "number"
                                THEN Raise("TypeError")
                                ELSE Return(<<clock - saved_timestamp[2]>>),
           None)

YoungerOrAsOld(age, max_age_seconds) == age <= max_age_seconds

\* Line 134.
Younger(age, max_age_seconds) == age < max_age_seconds

\* should_restore_metrics(max_age_hours), lines 128-134.
should_restore_metrics(read, clock, max_age_hours) ==
    LET age == get_metrics_age(read, clock)
    IN  IF age[1] = "raise" THEN age
        ELSE IF age[2] = None THEN Return(FALSE)
        ELSE Return(Younger(age[2][1], max_age_hours * SecondsPerHour))

\* save_metrics lines 52-55, for the list _save_metrics hands it: the
\* document that is written.
save_data(reg, clock) == Object(Num(clock), <<"array", metrics_list(reg)>>)

\* ---------------------------------------------------------------- restore
\* Closing braces after the labels: in a line of the exposition text, and
\* in the pattern of line 242, whose last piece, r'}} (...)', is no f-string.
LineBraces == 1
PatternBraces == 2

\* Lines 241-244: the value found for the sample in the current exposition
\* text, 0 if the pattern matches nothing.
current_value(reg, name, labels) ==
    LET found == {m \in generate_latest(reg) :
                     /\ m[2] = name
                     /\ m[3] = labels
                     /\ PatternBraces = LineBraces}
    IN  IF found = {} THEN 0 ELSE (CHOOSE m \in found : TRUE)[4]

\* metric.labels(**labels): the child exists from now on.
Labels(reg, metric, labels, zero) ==
    DictSet(reg, <<metric, labels>>, Child(reg, metric, labels, zero))

\* Lines 277-278: `for _ in range(n): counter.inc()`.
RECURSIVE IncTimes(_, _, _, _)
IncTimes(reg, metric, labels, n) ==
    IF n <= 0 THEN reg
    ELSE IncTimes(Inc(reg, metric, labels), metric, labels, n - 1)

\* Lines 253-260 and 317-332: the metric a sample name stands for.
CounterNamed(name) ==
    {c \in {"AGENT_EXECUTIONS_TOTAL", "TASK_EXECUTIONS_TOTAL",
            "WORKFLOW_EXECUTIONS_TOTAL", "AGENT_ERRORS_TOTAL"} :
        name = <<Base(c), "_total">>}
HistogramNamed(name) ==
    {h \in {"WORKFLOW_DURATION", "AGENT_EXECUTION_TIME",
            "TASK_EXECUTION_TIME"} : name = <<Base(h), "_sum">>}

SumSkipped(reg, name, labels, value) == reg

\* Lines 311-340: a histogram sum is observed, once, on its histogram.
SumRestored(reg, name, labels, value) ==
    IF IsEvaluation(name) \/ HistogramNamed(name) = {} THEN reg
    ELSE Observe(reg, CHOOSE h \in HistogramNamed(name) : TRUE, labels, value)

GaugeSkipped(reg, name, labels, value) == reg

\* Lines 285-295: the success rate is set.
GaugeRestored(reg, name, labels, value) ==
    IF name = <<"patent_workflow_success", "_rate">>
       THEN Set(reg, "WORKFLOW_SUCCESS_RATE", labels, value)
       ELSE reg

\* Lines 233-345, for one saved sample.
restore_metric(reg, metric) ==
    LET name == metric[2]
        labels == metric[3]
        value == metric[4]
        current == current_value(reg, name, labels)
    IN  IF EndsWith(name, "_total") \/ EndsWith(name, "_count")
           THEN IF CounterNamed(name) = {} THEN reg
                ELSE LET counter == CHOOSE c \in CounterNamed(name) : TRUE
                         child == Labels(reg, counter, labels, 0)
                     IN  IF value > current
                            THEN IncTimes(child, counter, labels,
                                          value - current)
                            ELSE child
        ELSE IF EndsWith(name, "_rate")
           THEN GaugeRestored(reg, name, labels, value)
        ELSE IF name = <<"patent_workflow_duration_seconds", "">>
           THEN Observe(reg, "WORKFLOW_DURATION", labels, value)
        ELSE IF EndsWith(name, "_sum")
           THEN SumRestored(reg, name, labels, value)
        ELSE reg

\* The loop of line 232 over saved samples.
RECURSIVE RestoreAll(_, _)
RestoreAll(reg, saved_metrics) ==
    IF saved_metrics = {} THEN reg
    ELSE LET metric == CHOOSE m \in saved_metrics : TRUE
         IN  RestoreAll(restore_metric(reg, metric), saved_metrics \ {metric})

\* `if not saved_metrics`, line 224.
Falsy(value) ==
    \/ value = None
    \/ value[1] = <<"array", {}>>
    \/ value[1] = Object(Missing, Missing)
    \/ value[1] = Num(0)

\* _restore_metrics, lines 219-354, for what reading the file gives:
\* <<how it ended, the registry afterwards>>.  A value that is no list of
\* samples raises inside the try block of line 227 before anything is
\* restored, and line 351 catches it.
restore_metrics(reg, read, clock) ==
    LET should == should_restore_metrics(read, clock, DefaultMaxAgeHours)
        saved_metrics == load_metrics(read)
    IN  IF should[1] = "raise" THEN <<"raised", reg>>
        ELSE IF ~should[2] THEN <<"too old", reg>>
        ELSE IF saved_metrics[1] = "raise" THEN <<"raised", reg>>
        ELSE IF Falsy(saved_metrics[2]) THEN <<"nothing saved", reg>>
        ELSE LET value == saved_metrics[2][1]
             IN  IF /\ value[1] = "array"
                    /\ \A m \in value[2] : m[1] = "sample"
                    THEN <<"restored", RestoreAll(reg, value[2])>>
                    ELSE <<"gave up", reg>>

\* The calls counted by the counters of a registry.
RECURSIVE Total(_, _)
Total(reg, keys) ==
    IF keys = {} THEN 0
    ELSE LET k == CHOOSE key \in keys : TRUE
         IN  (IF k[1] \in Counters THEN reg[k] ELSE 0)
                + Total(reg, keys \ {k})

\* The model follows a process while its counters count no more than
\* MaxTracked calls and no histogram holds more than the observations of
\* as many calls: it tracks no further call and saves nothing beyond that.
Small(reg) ==
    /\ Total(reg, DOMAIN reg) <= MaxTracked
    /\ \A k \in DOMAIN reg :
          k[1] \in Histograms => /\ reg[k].count <= MaxTracked
                                 /\ reg[k].sum <= MaxTracked * MaxDuration
Tracking(reg) == Total(reg, DOMAIN reg) < MaxTracked

\* ---------------------------------------------------------------- actions
\* The module is imported: PrometheusMetrics.__init__ restores into the new
\* process's registry (line 120) before anything else runs in it.
Startup ==
    /\ ~up
    /\ \E read \in Read(persistence_file) :
          LET done == restore_metrics(registry, read, time_time)
          IN  /\ restore_outcome' = done[1]
              /\ registry' = done[2]
    /\ up' = TRUE
    /\ UNCHANGED <<persistence_file, savers>>
    /\ UNCHANGED <<brvars, error_stats, now, rtvars, hvars, wtvars, lsvars,
                   ctvars, stvars>>


\* scripts/restore_metrics.py lines 21-23: the script has imported the
\* module (which started this process's metrics) and, if its own
\* should_restore_metrics() says so, calls _restore_metrics again.
RestoreAgain ==
    /\ up
    /\ Small(registry)
    /\ \E check \in Read(persistence_file) :
          should_restore_metrics(check, time_time, DefaultMaxAgeHours)
             = Return(TRUE)
    /\ \E read \in Read(persistence_file) :
          LET done == restore_metrics(registry, read, time_time)
          IN  /\ restore_outcome' = done[1]
              /\ registry' = done[2]
    /\ UNCHANGED <<persistence_file, up, savers>>
    /\ UNCHANGED <<brvars, error_stats, now, rtvars, hvars, wtvars, lsvars,
                   ctvars, stvars>>

\* metrics.track_workflow is called.
TrackWorkflow(id, duration, success) ==
    /\ up
    /\ Tracking(registry)
    /\ registry' = track_workflow(registry, id, duration, success)
    /\ UNCHANGED <<pstvars, ctvars, stvars>>
    /\ UNCHANGED <<brvars, error_stats, now, rtvars, hvars, wtvars, lsvars,
                   ctvars, stvars>>

\* metrics.track_metric_score is called.
TrackMetricScore(id, metric_name, score) ==
    /\ up
    /\ Tracking(registry)
    /\ registry' = track_metric_score(registry, id, metric_name, score)
    /\ UNCHANGED <<pstvars, ctvars, stvars>>
    /\ UNCHANGED <<brvars, error_stats, now, rtvars, hvars, wtvars, lsvars,
                   ctvars, stvars>>

\* _save_metrics lines 153-194 and save_metrics lines 52-55, in the
\* periodic thread (line 372) or at shutdown (line 507, once in the life
\* of the process): the samples are exported and save_data is built.
SaveExport(s) ==
    /\ up
    /\ savers[s].pc = "idle"
    /\ s = "shutdown" => savers[s].returned = None
    /\ Small(registry)
    /\ savers' = [savers EXCEPT ![s] =
          [pc |-> "open",
           save_data |-> <<save_data(registry, time_time)>>,
           returned |-> None]]
    /\ UNCHANGED <<registry, persistence_file, up, restore_outcome>>
    /\ UNCHANGED <<brvars, error_stats, now, rtvars, hvars, wtvars, lsvars,
                   ctvars, stvars>>

\* Line 58: open(self.persistence_file, 'w') leaves the file empty.
SaveOpen(s) ==
    /\ savers[s].pc = "open"
    /\ persistence_file' = <<Written(None, None)>>
    /\ savers' = [savers EXCEPT ![s].pc = "dump"]
    /\ UNCHANGED <<registry, up, restore_outcome>>
    /\ UNCHANGED <<brvars, error_stats, now, rtvars, hvars, wtvars, lsvars,
                   ctvars, stvars>>

\* Line 58 raises (the directory is gone, the disk is full, no permission):
\* lines 62-64 return False.
SaveFails(s) ==
    /\ savers[s].pc = "open"
    /\ savers' = [savers EXCEPT ![s] =
          [pc |-> "idle", save_data |-> None,
           returned |-> Except(Raise("OSError"), <<FALSE>>)]]
    /\ UNCHANGED <<registry, persistence_file, up, restore_outcome>>
    /\ UNCHANGED <<brvars, error_stats, now, rtvars, hvars, wtvars, lsvars,
                   ctvars, stvars>>

\* Line 59: json.dump writes the text through the file's buffer; the first
\* half reaches the file, at the thread's own position in it.
SaveDump(s) ==
    /\ savers[s].pc = "dump"
    /\ persistence_file # None
    /\ persistence_file[1][1] = "written"
    /\ persistence_file' =
          <<Written(savers[s].save_data, persistence_file[1][3])>>
    /\ savers' = [savers EXCEPT ![s].pc = "close"]
    /\ UNCHANGED <<registry, up, restore_outcome>>
    /\ UNCHANGED <<brvars, error_stats, now, rtvars, hvars, wtvars, lsvars,
                   ctvars, stvars>>

\* Lines 59-61: the rest of the text reaches the file when the `with` block
\* closes it; return True.
SaveClose(s) ==
    /\ savers[s].pc = "close"
    /\ persistence_file # None
    /\ persistence_file[1][1] = "written"
    /\ persistence_file' =
          <<Written(persistence_file[1][2], savers[s].save_data)>>
    /\ savers' = [savers EXCEPT ![s] =
          [pc |-> "idle", save_data |-> None, returned |-> Return(<<TRUE>>)]]
    /\ UNCHANGED <<registry, up, restore_outcome>>
    /\ UNCHANGED <<brvars, error_stats, now, rtvars, hvars, wtvars, lsvars,
                   ctvars, stvars>>

\* The process ends, wherever its threads are (the saving thread is a
\* daemon, line 375): the registry is gone, the file stays as it is.
Stop ==
    /\ up
    /\ up' = FALSE
    /\ registry' = <<>>
    /\ savers' = [s \in Savers |->
                     [pc |-> "idle", save_data |-> None, returned |-> None]]
    /\ workers' = NoWorkers
    /\ value_lock' = 0
    /\ prior' = None
    /\ UNCHANGED <<persistence_file, restore_outcome>>
    /\ UNCHANGED <<brvars, error_stats, now, rtvars, hvars, wtvars, lsvars,
                   stvars>>

\* While the process is down, something else leaves the file damaged.
ForeignWrite(text) ==
    /\ ~up
    /\ persistence_file' = <<Foreign(text, time_time)>>
    /\ UNCHANGED <<registry, up, savers, restore_outcome>>
    /\ UNCHANGED <<brvars, error_stats, now, rtvars, hvars, wtvars, lsvars,
                   ctvars, stvars>>

\* While the process is down, a second passes.  (One run of the process is
\* taken to be short against the clock's unit: its saves carry the time it
\* started at.)
Wait ==
    /\ ~up
    /\ now < MaxTime
    /\ now' = now + 1
    /\ UNCHANGED <<brvars, error_stats, rtvars, hvars, wtvars, lsvars,
                   mtvars>>

\* While the process is down, a day less a second passes.
LongWait ==
    /\ ~up
    /\ now <= MaxTime
    /\ now' = now + DefaultMaxAgeHours * SecondsPerHour - 1
    /\ UNCHANGED <<brvars, error_stats, rtvars, hvars, wtvars, lsvars,
                   mtvars>>

PersistNext ==
    \/ Wait
    \/ LongWait
    \/ Startup
    \/ RestoreAgain
    \/ \E id \in {"wf-1"}, duration \in {MaxDuration}, success \in BOOLEAN :
          TrackWorkflow(id, duration, success)
    \/ \E id \in {"wf-1"}, score \in {MaxDuration} :
          TrackMetricScore(id, "relevance", score)
    \/ \E s \in Savers :
          \/ SaveExport(s)
          \/ SaveOpen(s)
          \/ SaveFails(s)
          \/ SaveDump(s)
          \/ SaveClose(s)
    \/ Stop
    \/ \E text \in ForeignTexts : ForeignWrite(text)

PersistSpec == InitFixed /\ [][PersistNext]_vars

\* ======================================================================
\* Concurrent tracking calls: the threads of a running process call
\* metrics.track_workflow("wf-1", MaxDuration, True) while the periodic
\* thread saves.  The call is three calls into prometheus_client, lines 436,
\* 439 and 443.  Counter.inc() adds to the child's value while holding the
\* lock of that value; it is taken here as the two steps it consists of,
\* reading the value and writing the sum.  All increments of this
\* specification are of one counter child, so there is one lock.
\* ======================================================================
TrackedKey == <<"WORKFLOW_EXECUTIONS_TOTAL", <<"wf-1", "success">>>>

NeverHeld == TRUE

\* The lock of the counter child's value is free.
Acquirable == value_lock = 0

\* The application starts its worker threads; none has tracked anything.
RunWorkflows ==
    /\ up
    /\ prior = None
    /\ prior' = <<Child(registry, TrackedKey[1], TrackedKey[2], 0)>>
    /\ UNCHANGED <<registry, pstvars, workers, value_lock>>
    /\ UNCHANGED <<brvars, error_stats, now, rtvars, hvars, wtvars, lsvars,
                   stvars>>

\* Line 436: WORKFLOW_DURATION.labels(...).observe(duration), by a thread
\* that has not tracked its workflow yet.
TrackObserve(t) ==
    /\ prior # None
    /\ workers[t].pc = "idle"
    /\ workers[t].incs = 0
    /\ registry' = Observe(registry, "WORKFLOW_DURATION", TrackedKey[2],
                           MaxDuration)
    /\ workers' = [workers EXCEPT ![t].pc = "inc"]
    /\ UNCHANGED <<pstvars, value_lock, prior>>
    /\ UNCHANGED <<brvars, error_stats, now, rtvars, hvars, wtvars, lsvars,
                   stvars>>

\* Line 439, WORKFLOW_EXECUTIONS_TOTAL.labels(...).inc(): the lock of the
\* value is taken and the value is read (0 for a child made just now).
IncRead(t) ==
    /\ workers[t].pc = "inc"
    /\ Acquirable
    /\ value_lock' = t
    /\ workers' = [workers EXCEPT
          ![t].pc = "write",
          ![t].value = Child(registry, TrackedKey[1], TrackedKey[2], 0)]
    /\ UNCHANGED <<registry, pstvars, prior>>
    /\ UNCHANGED <<brvars, error_stats, now, rtvars, hvars, wtvars, lsvars,
                   stvars>>

\* Line 439, continued: the value read plus one is written and the lock is
\* released; inc() returns.
IncWrite(t) ==
    /\ workers[t].pc = "write"
    /\ registry' = Set(registry, TrackedKey[1], TrackedKey[2],
                       workers[t].value + 1)
    /\ value_lock' = IF value_lock = t THEN 0 ELSE value_lock
    /\ workers' = [workers EXCEPT ![t].pc = "set",
                                  ![t].incs = workers[t].incs + 1]
    /\ UNCHANGED <<pstvars, prior>>
    /\ UNCHANGED <<brvars, error_stats, now, rtvars, hvars, wtvars, lsvars,
                   stvars>>

\* Lines 442-443: WORKFLOW_SUCCESS_RATE.labels(...).set(1.0); the call
\* returns.
TrackSet(t) ==
    /\ workers[t].pc = "set"
    /\ registry' = Set(registry, "WORKFLOW_SUCCESS_RATE", <<"wf-1">>, 1)
    /\ workers' = [workers EXCEPT ![t].pc = "idle"]
    /\ UNCHANGED <<pstvars, value_lock, prior>>
    /\ UNCHANGED <<brvars, error_stats, now, rtvars, hvars, wtvars, lsvars,
                   stvars>>

CounterNext ==
    \/ Startup
    \/ RunWorkflows
    \/ \E t \in Workers :
          \/ TrackObserve(t)
          \/ IncRead(t)
          \/ IncWrite(t)
          \/ TrackSet(t)
    \/ SaveExport("periodic")
    \/ SaveOpen("periodic")
    \/ SaveFails("periodic")
    \/ SaveDump("periodic")
    \/ SaveClose("periodic")
    \/ Stop

CounterSpec == InitFixed /\ [][CounterNext]_vars

\* ======================================================================
\* The locks of the components together: each worker thread is, at any
\* time, idle, inside ErrorHandler.safe_execute (through the breaker and
\* on to handle_error) or inside a WorkflowTracker method.  handle_error is
\* taken in two steps here: error_handling.py line 190 acquires
\* ErrorHandler.lock, line 191 counts the error and the `with` block
\* releases the lock.
\* ======================================================================
\* safe_execute calls started in this specification.
MaxLockCalls == 2

Kept(t) == t

\* The holder of a lock after the `with` block that held it: nobody.
Released(t) == 0

\* Line 190: `with self.lock:` is entered.
HandleErrorLock(t) ==
    /\ pc[t] = "handle_error"
    /\ HandlerLockFree
    /\ handler_lock' = t
    /\ pc' = [pc EXCEPT ![t] = "handle_error_body"]
    /\ UNCHANGED <<cbvars, lock, cfgvars, error_stats, now, locals, obs,
                   opened_at, fresh, calls>>
    /\ UNCHANGED <<circuit_breakers, instances, hpc, cb_name, herr,
                   count_read, ended, surfaced, hcalls>>
    /\ UNCHANGED <<rtvars, wtvars, lsvars, mtvars>>

\* Line 191 and the end of the `with` block; safe_execute re-raises (line
\* 221).
HandleErrorCount(t) ==
    /\ pc[t] = "handle_error_body"
    /\ error_stats' = [error_stats EXCEPT ![err[t]] = @ + 1]
    /\ handler_lock' = Released(t)
    /\ pc' = [pc EXCEPT ![t] = "idle"]
    /\ Finished(t)
    /\ UNCHANGED <<cbvars, lock, cfgvars, now, opened_at, fresh, calls>>
    /\ UNCHANGED <<circuit_breakers, instances, hpc, cb_name, herr,
                   count_read, ended, surfaced, hcalls>>
    /\ UNCHANGED <<rtvars, wtvars, lsvars, mtvars>>

LockNext ==
    \/ Tick
    \/ \E t \in Threads :
          \/ /\ wpc[t] = "idle"
             /\ calls < MaxLockCalls
             /\ SafeExecute(t)
             /\ retry_config'[t] = None
          \/ CheckState(t)
          \/ AttemptReset(t)
          \/ SetHalfOpen(t)
          \/ InvokeFail(t)
          \/ InvokeOkGuarded(t)
          \/ InvokeOkDirect(t)
          \/ OnSuccessAcquire(t)
          \/ OnSuccess(t)
          \/ OnFailureAcquire(t)
          \/ OnFailure(t)
          \/ HandleErrorLock(t)
          \/ HandleErrorCount(t)
          \/ /\ pc[t] = "idle"
             /\ RegisterWorkflow(t)
             /\ workflow_id'[t] = <<"wf-1">>
             /\ listener'[t] = <<"L">>
          \/ /\ pc[t] = "idle"
             /\ UnregisterWorkflow(t)
             /\ workflow_id'[t] = <<"wf-1">>
          \/ TrackerAcquire(t)
          \/ RegisterCheck(t)
          \/ RegisterAdd(t)
          \/ UnregisterCheck(t)
          \/ UnregisterRemove(t)

LockSpec == InitFixed /\ [][LockNext]_vars

\* ======================================================================
\* The breaker under callers that keep calling CircuitBreaker.call, with a
\* func that fails only for a while: until the MaxFaulty-th call has been
\* started an invocation may raise, from then on every invocation returns.
\* The callers call the breaker itself, so what call() raises goes to
\* them.  The clock is followed while a recorded failure is younger than
\* recovery_timeout or a retry sleeps: only then does a caller wait for it.
\* While func can fail a call is made with func as it is or wrapped by
\* retry with MaxAttempts attempts; once func returns every time the
\* wrapper runs it once and returns what it returned (lines 137-140), and
\* the call is followed as one of func itself.
\* ======================================================================
\* Calls started until func stops failing.
MaxFaulty == 2

Faulty == calls < MaxFaulty

\* Line 70 is still false for the failure recorded last.
RecoveryPending ==
    /\ last_failure_time # None
    /\ now - TimeOf(last_failure_time) < recovery_timeout

\* datetime.now() / time.sleep: a second passes.
Elapse ==
    /\ \/ RecoveryPending
       \/ \E t \in Threads : pc[t] = "sleep" /\ now < wake[t]
    /\ now' = now + 1
    /\ UNCHANGED <<cbvars, lock, cfgvars, error_stats, pc, locals, obs,
                   opened_at, fresh, calls>>
    /\ UNCHANGED <<rtvars, hvars, wtvars, lsvars, mtvars>>

\* The retry configurations of the callers.
CallerConfigs ==
    {<<c>> : c \in {r \in RetryConfig : Faulty /\ r.max_attempts = MaxAttempts}}
       \cup {None}

\* Line 48: a caller enters CircuitBreaker.call(func), func being plain or
\* wrapped by retry(rc).
Call(t) ==
    /\ pc[t] = "idle"
    /\ calls' = IF Faulty THEN calls + 1 ELSE calls
    /\ \E rc \in CallerConfigs :
          retry_config' = [retry_config EXCEPT ![t] = rc]
    /\ guarded' = [guarded EXCEPT ![t] = TRUE]
    /\ pc' = [pc EXCEPT ![t] = "cb_check"]
    /\ UNCHANGED <<cbvars, lock, cfgvars, error_stats, now, attempt, wake, err,
                   obs, opened_at, fresh>>
    /\ UNCHANGED <<rtvars, hvars, wtvars, lsvars, mtvars>>

\* Line 57: func raises, which it does only while it is faulty.
InvokeFailFaulty(t) == Faulty /\ InvokeFail(t)

\* Lines 54 and 63: what call() raises reaches the caller.
RaisedToCaller(t) ==
    /\ pc[t] = "handle_error"
    /\ pc' = [pc EXCEPT ![t] = "idle"]
    /\ Finished(t)
    /\ UNCHANGED <<cbvars, lock, cfgvars, error_stats, now, opened_at, fresh,
                   calls>>
    /\ UNCHANGED <<rtvars, hvars, wtvars, lsvars, mtvars>>

\* What thread t can do next.
Caller(t) ==
    \/ Call(t)
    \/ CheckState(t)
    \/ AttemptReset(t)
    \/ SetHalfOpen(t)
    \/ InvokeFailFaulty(t)
    \/ InvokeOkGuarded(t)
    \/ Wake(t)
    \/ OnSuccessAcquire(t)
    \/ OnSuccess(t)
    \/ OnFailureAcquire(t)
    \/ OnFailure(t)
    \/ RaisedToCaller(t)

LiveNext ==
    \/ Elapse
    \/ \E t \in Threads : Caller(t)

\* Time passes, and every caller thread is scheduled again and again: a
\* thread that can take its next step for good takes it.
LiveSpec ==
    /\ Init
    /\ [][LiveNext]_vars
    /\ WF_vars(Elapse)
    /\ \A t \in Threads : WF_vars(Caller(t))

\* ======================================================================
\* The handlers of one workflow's listener run by two threads of the bus
\* at the same time, for the execution of one agent (agent_listener.py)
\* and the kickoff of the crew (crew_listener.py).  A handler takes one
\* step per access to start_times or execution_data; its entry checks and
\* update_workflow_activity are one step, and so is the call of
\* metrics.track_agent_execution / track_workflow.
\* ======================================================================
\* Start events of a step are delivered until this many have been accepted.
MaxStarts == 1

\* AgentExecutionStarted/Completed/ErrorEvent, CrewKickoffStarted/
\* Completed/FailedEvent.
StepEvents == {"started", "completed", "failed"}

\* The workflow whose listener is followed.
Tracked == "wf-1"

\* agent_listener.py lines 79-80 and crew_listener.py lines 40-44: the
\* step_id of the agent's, and of the crew's, execution.
StepOf(kind) ==
    IF kind = "agent" THEN get_step_id("agent", "fetcher_agent", Tracked)
    ELSE get_step_id("crew", "crew", Tracked)

\* The status a completion or failure handler writes to execution_data.
StatusOf(event) == IF event = "completed" THEN "completed" ELSE "failed"

\* The handler of thread t returns or the exception leaves it.
Delivered(t) == delivery' = [delivery EXCEPT ![t] = NoDelivery]

Goto(t, label) == delivery' = [delivery EXCEPT ![t].pc = label]

stframe == <<brvars, error_stats, now, rtvars, hvars, global_event_listener,
             handler, pstvars, ctvars, run>>

\* end_workflow, crew.py lines 116-119: the workflow's listener is the
\* global one; MonitoringEventListener.cleanup (monitoring_listener.py
\* lines 33-45) has returned and global_event_listener is None.
CleanupListener ==
    /\ global_event_listener = <<Tracked>>
    /\ listeners' = DictSet(listeners, Tracked, Cleanup(listeners[Tracked]))
    /\ global_event_listener' = None
    /\ UNCHANGED <<handler, wtvars, mtvars>>
    /\ UNCHANGED <<brvars, error_stats, now, rtvars, hvars>>

\* The listener has been cleaned up (in this specification nothing else
\* sets global_event_listener to None).
CleanedUp == Tracked \in DOMAIN listeners /\ global_event_listener = None

\* end_workflow, crew.py line 122: unregister_workflow(self.workflow_id),
\* workflow_tracker.py lines 38-51.
UnregisterTracked ==
    /\ CleanedUp
    /\ Tracked \in active_workflows
    /\ active_workflows' = active_workflows \ {Tracked}
    /\ workflow_listeners' = DictDel(workflow_listeners, Tracked)
    /\ last_workflow_activity' = DictDel(last_workflow_activity, Tracked)
    /\ UNCHANGED <<lsvars, wtcalls, mtvars>>
    /\ UNCHANGED <<brvars, error_stats, now, rtvars, hvars>>

\* The bus calls, in thread t, the listener's handler for an event.  The
\* agent's step and the crew's have nothing in common (two listener
\* objects, two sets of metrics): a behaviour follows the events of one of
\* them.  late: cleanup had returned when the bus called the handler.
Emit(t, kind, event) ==
    /\ delivery[t].pc = "idle"
    /\ Tracked \in DOMAIN listeners
    /\ event = "started" => accepted[kind] < MaxStarts
    /\ \A other \in StepKinds \ {kind} : accepted[other] = 0
    /\ \A u \in Threads : delivery[u].kind \in {"", kind}
    /\ delivery' = [delivery EXCEPT ![t] =
          [pc |-> "entry", kind |-> kind, event |-> event, duration |-> 0,
           late |-> CleanedUp]]
    /\ UNCHANGED <<listeners, accepted, registry, wtvars, stframe>>

\* agent_listener.py lines 63-72 (142-151, 235-244), crew_listener.py lines
\* 28-37 (64-73, 105-114): the event is dropped unless the listener is
\* live; update_workflow_activity.  The crew's handlers go on to
\* _start_tracking or _end_tracking, the agent's to their checks.
StepEntry(t) ==
    /\ delivery[t].pc = "entry"
    /\ IF ListenerLive(Tracked)
          THEN /\ last_workflow_activity' =
                     DictSet(last_workflow_activity, Tracked, now)
               /\ Goto(t, IF delivery[t].kind = "agent" THEN "tracking"
                          ELSE IF delivery[t].event = "started" THEN "start"
                          ELSE "end")
          ELSE /\ Delivered(t)
               /\ UNCHANGED last_workflow_activity
    /\ UNCHANGED <<listeners, accepted, registry, active_workflows,
                   workflow_listeners, wtcalls, stframe>>

\* agent_listener.py line 83: a start event for a step that is being
\* tracked is skipped; lines 164 and 255: a completion or error event for
\* a step that is not being tracked is skipped.
StepTracking(t) ==
    /\ delivery[t].pc = "tracking"
    /\ LET tracking ==
              StepOf(delivery[t].kind) \in DOMAIN listeners[Tracked].start_times
       IN  IF delivery[t].event = "started"
              THEN IF tracking THEN Delivered(t) ELSE Goto(t, "start")
              ELSE IF tracking THEN Goto(t, "processed") ELSE Delivered(t)
    /\ UNCHANGED <<listeners, accepted, registry, wtvars, stframe>>

\* agent_listener.py lines 204 and 295: a step whose execution_data has
\* the handler's status already is skipped.
StepProcessed(t) ==
    /\ delivery[t].pc = "processed"
    /\ LET data == listeners[Tracked].execution_data
           step_id == StepOf(delivery[t].kind)
       IN  IF /\ step_id \in DOMAIN data
              /\ data[step_id] = StatusOf(delivery[t].event)
              THEN Delivered(t) ELSE Goto(t, "end")
    /\ UNCHANGED <<listeners, accepted, registry, wtvars, stframe>>

\* _start_tracking, base_listener.py line 43: the start event is accepted.
StartTracking(t) ==
    /\ delivery[t].pc = "start"
    /\ listeners' = [listeners EXCEPT ![Tracked].start_times =
          DictSet(@, StepOf(delivery[t].kind), now)]
    /\ accepted' = [accepted EXCEPT ![delivery[t].kind] = @ + 1]
    /\ Goto(t, "started")
    /\ UNCHANGED <<registry, wtvars, stframe>>

\* agent_listener.py line 128, crew_listener.py line 48.
StartData(t) ==
    /\ delivery[t].pc = "started"
    /\ listeners' = [listeners EXCEPT ![Tracked].execution_data =
          DictSet(@, StepOf(delivery[t].kind), "started")]
    /\ Delivered(t)
    /\ UNCHANGED <<accepted, registry, wtvars, stframe>>

\* _end_tracking, base_listener.py line 48: without a start time it
\* returns 0.0 (line 54).
EndTracking(t) ==
    /\ delivery[t].pc = "end"
    /\ Goto(t, IF StepOf(delivery[t].kind)
                     \in DOMAIN listeners[Tracked].start_times
                  THEN "end_read" ELSE "ended")
    /\ UNCHANGED <<listeners, accepted, registry, wtvars, stframe>>

AnyKey(d, k) == TRUE

\* d[k] and `del d[k]` raise KeyError unless d has the key.
HasKey(d, k) == k \in DOMAIN d

\* Line 49: duration = time.time() - self.start_times[step_id].
EndRead(t) ==
    /\ delivery[t].pc = "end_read"
    /\ LET start_times == listeners[Tracked].start_times
           step_id == StepOf(delivery[t].kind)
       IN  IF step_id \in DOMAIN start_times
              THEN delivery' = [delivery EXCEPT
                      ![t].pc = "end_del",
                      ![t].duration = now - start_times[step_id]]
              ELSE Delivered(t)
    /\ UNCHANGED <<listeners, accepted, registry, wtvars, stframe>>

\* Line 50: del self.start_times[step_id]; line 52 returns the duration.
EndDel(t) ==
    /\ delivery[t].pc = "end_del"
    /\ LET step_id == StepOf(delivery[t].kind)
       IN  IF HasKey(listeners[Tracked].start_times, step_id)
              THEN /\ listeners' = [listeners EXCEPT ![Tracked].start_times =
                                       DictDel(@, step_id)]
                   /\ Goto(t, "ended")
              ELSE /\ Delivered(t)
                   /\ UNCHANGED listeners
    /\ UNCHANGED <<accepted, registry, wtvars, stframe>>

\* agent_listener.py lines 210-217 (301-308), crew_listener.py lines 80-87
\* (121-128): execution_data gets the status if it has the step.
EndData(t) ==
    /\ delivery[t].pc = "ended"
    /\ LET step_id == StepOf(delivery[t].kind)
       IN  listeners' = [listeners EXCEPT ![Tracked].execution_data =
              IF step_id \in DOMAIN @
                 THEN DictSet(@, step_id, StatusOf(delivery[t].event))
                 ELSE @]
    /\ Goto(t, "track")
    /\ UNCHANGED <<accepted, registry, wtvars, stframe>>

\* agent_listener.py lines 220-222 (311-313), crew_listener.py lines 90-92
\* (131-133): a duration above 0 is tracked in the metrics.
TrackStep(t) ==
    /\ delivery[t].pc = "track"
    /\ LET duration == delivery[t].duration
           success == delivery[t].event = "completed"
       IN  registry' =
              IF duration <= 0 THEN registry
              ELSE IF delivery[t].kind = "agent"
                 THEN track_agent_execution(registry, "fetcher_agent",
                         duration, success,
                         IF success THEN None ELSE <<"Exception">>)
                 ELSE track_workflow(registry, Tracked, duration, success)
    /\ Delivered(t)
    /\ UNCHANGED <<listeners, accepted, wtvars, stframe>>

StepNext ==
    \/ Tick
    \/ CreateListener(Tracked)
    \/ CleanupListener
    \/ UnregisterTracked
    \/ \E t \in Threads :
          \/ \E kind \in StepKinds, event \in StepEvents : Emit(t, kind, event)
          \/ StepEntry(t)
          \/ StepTracking(t)
          \/ StepProcessed(t)
          \/ StartTracking(t)
          \/ StartData(t)
          \/ EndTracking(t)
          \/ EndRead(t)
          \/ EndDel(t)
          \/ EndData(t)
          \/ TrackStep(t)

StepSpec == InitFixed /\ [][StepNext]_vars

\* ======================================================================
\* A chat run: ui/chat_ui.py run() on a PatentInnovationCrew of its own,
\* from start_workflow to the finally block, one run after another.  What
\* the run calls can return or raise; the consumer of the generator
\* resumes it after a yield or closes it.  A maintenance thread sweeps the
\* tracker.  Beside run(), a caller may start another workflow on the crew
\* object while its workflow is running.
\* ======================================================================
\* set.discard left out: the id stays.
Retain(ids, id) == ids

\* workflow_tracker.py line 43: self._active_workflows.remove(workflow_id).
Remove(ids, id) == ids \ {id}

\* unregister_workflow(id), workflow_tracker.py lines 36-51.
Unregister(id) ==
    IF id \in active_workflows
       THEN /\ active_workflows' = Remove(active_workflows, id)
            /\ workflow_listeners' = DictDel(workflow_listeners, id)
            /\ last_workflow_activity' = DictDel(last_workflow_activity, id)
       ELSE UNCHANGED <<active_workflows, workflow_listeners,
                        last_workflow_activity>>

\* str(uuid.uuid4()), crew.py line 101: an id that no workflow has had.
NewIds == WorkflowIds \ run.used

runframe == <<brvars, error_stats, now, rtvars, hvars, handler, wtcalls,
              pstvars, ctvars, delivery, accepted>>

\* chat_ui.py lines 36-38: crew_obj = PatentInnovationCrew().
RunBegin ==
    /\ run.pc \in {"idle", "finished"}
    /\ NewIds # {}
    /\ run' = [run EXCEPT !.pc = "start", !.crew = None, !.workflow_id = None]
    /\ UNCHANGED <<lsvars, active_workflows, workflow_listeners,
                   last_workflow_activity, registry, runframe>>

\* start_workflow, crew.py lines 94-106: a workflow the crew object has
\* is unregistered, and the object gets a new id.
start_workflow(id) ==
    /\ IF run.crew # None THEN Unregister(run.crew[1])
       ELSE UNCHANGED <<active_workflows, workflow_listeners,
                        last_workflow_activity>>
    /\ UNCHANGED <<lsvars, registry, runframe>>

\* chat_ui.py line 41: workflow_id = crew_obj.start_workflow(query).
StartWorkflow ==
    /\ run.pc = "start"
    /\ \E id \in NewIds :
          /\ start_workflow(id)
          /\ run' = [run EXCEPT !.pc = "crew", !.crew = <<id>>,
                                !.workflow_id = <<id>>, !.used = @ \cup {id}]

\* Another caller starts a workflow on the crew object whose workflow is
\* running, and builds its crew.
StartAgain ==
    /\ run.pc = "kickoff"
    /\ \E id \in NewIds :
          /\ start_workflow(id)
          /\ run' = [run EXCEPT !.pc = "crew", !.crew = <<id>>,
                                !.used = @ \cup {id}]

\* chat_ui.py line 45, crew.py lines 171-227.  built: Crew(**crew_kwargs)
\* returns; constructed: MonitoringEventListener(...) returns (what it
\* raises is caught at line 216).
BuildCrew ==
    /\ run.pc = "crew"
    /\ \E built \in BOOLEAN, constructed \in BOOLEAN :
          LET id == run.crew[1]
          IN  IF ~built
                 THEN /\ run' = [run EXCEPT !.pc = "except"]
                      /\ UNCHANGED <<lsvars, active_workflows,
                                     workflow_listeners,
                                     last_workflow_activity>>
              ELSE IF is_workflow_active(id)
                 THEN /\ run' = [run EXCEPT !.pc = "kickoff"]
                      /\ global_event_listener' = get_workflow_listener(id)
                      /\ UNCHANGED <<listeners, active_workflows,
                                     workflow_listeners,
                                     last_workflow_activity>>
              ELSE IF ~constructed
                 THEN /\ run' = [run EXCEPT !.pc = "kickoff"]
                      /\ global_event_listener' = None
                      /\ UNCHANGED <<listeners, active_workflows,
                                     workflow_listeners,
                                     last_workflow_activity>>
              ELSE /\ run' = [run EXCEPT !.pc = "kickoff"]
                   /\ listeners' = DictSet(listeners, id, NewListener)
                   /\ global_event_listener' = <<id>>
                   /\ active_workflows' = active_workflows \cup {id}
                   /\ workflow_listeners' = DictSet(workflow_listeners, id, id)
                   /\ last_workflow_activity' =
                         DictSet(last_workflow_activity, id, now)
    /\ UNCHANGED <<registry, runframe>>

\* chat_ui.py lines 46-61: crew_instance.kickoff(inputs) returns or raises.
Kickoff ==
    /\ run.pc = "kickoff"
    /\ \E raised \in BOOLEAN :
          run' = [run EXCEPT !.pc = IF raised THEN "except" ELSE "end"]
    /\ UNCHANGED <<lsvars, active_workflows, workflow_listeners,
                   last_workflow_activity, registry, runframe>>

\* end_workflow, crew.py lines 108-122, on the crew object's workflow_id.
end_workflow ==
    IF run.crew = None
       THEN UNCHANGED <<lsvars, active_workflows, workflow_listeners,
                        last_workflow_activity>>
       ELSE LET id == run.crew[1]
            IN  /\ IF global_event_listener = <<id>>
                      THEN /\ listeners' = DictSet(listeners, id,
                                              Cleanup(listeners[id]))
                           /\ global_event_listener' = None
                      ELSE UNCHANGED <<listeners, global_event_listener>>
                /\ Unregister(id)

\* chat_ui.py lines 63-67: end_workflow(success=True); process_result
\* returns (line 69 yields the result) or raises.
EndSuccess ==
    /\ run.pc = "end"
    /\ end_workflow
    /\ \E raised \in BOOLEAN :
          run' = [run EXCEPT !.pc = IF raised THEN "except" ELSE "yield"]
    /\ UNCHANGED <<registry, runframe>>

\* The consumer resumes the generator after line 69: the evaluation, lines
\* 72-106, returns, having tracked its scores, or what it raises is caught.
Evaluate ==
    /\ run.pc = "yield"
    /\ \E raised \in BOOLEAN :
          registry' = IF raised THEN registry
                      ELSE track_metric_score(registry, run.workflow_id[1],
                                              "relevance", 1)
    /\ run' = [run EXCEPT !.pc = "finally"]
    /\ UNCHANGED <<lsvars, active_workflows, workflow_listeners,
                   last_workflow_activity, runframe>>

\* Lines 110-114: the except clause ends the workflow and yields the error.
RunExcept ==
    /\ run.pc = "except"
    /\ IF run.workflow_id # None THEN end_workflow
       ELSE UNCHANGED <<lsvars, active_workflows, workflow_listeners,
                        last_workflow_activity>>
    /\ run' = [run EXCEPT !.pc = "yield_error"]
    /\ UNCHANGED <<registry, runframe>>

\* The consumer resumes the generator after line 114, or closes it at one
\* of its yields (GeneratorExit is raised there): the finally block is next.
Consume ==
    /\ run.pc \in {"yield", "yield_error"}
    /\ run' = [run EXCEPT !.pc = "finally"]
    /\ UNCHANGED <<lsvars, active_workflows, workflow_listeners,
                   last_workflow_activity, registry, runframe>>

\* Lines 115-123: unregister_workflow(workflow_id), if the run has one.
Finally ==
    /\ run.pc = "finally"
    /\ IF run.workflow_id # None THEN Unregister(run.workflow_id[1])
       ELSE UNCHANGED <<active_workflows, workflow_listeners,
                        last_workflow_activity>>
    /\ run' = [run EXCEPT !.pc = "finished"]
    /\ UNCHANGED <<lsvars, registry, runframe>>

\* The steps run() takes by itself.
RunStep ==
    \/ StartWorkflow
    \/ BuildCrew
    \/ Kickoff
    \/ EndSuccess
    \/ RunExcept
    \/ Finally

RunNext ==
    \/ Tick
    \/ \E m \in 0..MaxInactive : Sweep(m)
    \/ RunBegin
    \/ StartAgain
    \/ Evaluate
    \/ Consume
    \/ RunStep

\* run() goes on until it yields or returns: what it calls returns or
\* raises.
RunSpec == InitFixed /\ [][RunNext]_vars /\ WF_vars(RunStep)

\* ------------------------------------------------------------------ claims
\* Thread t takes this step (every thread action moves its pc).
StepBy(t) == pc'[t] # pc[t]

\* Seconds elapsed since the time x (a set Optional[datetime]).
Elapsed(x) == now - TimeOf(x)

\* The step of t rejects its call: CircuitBreakerOpenError is on its way to
\* the caller and func has not been invoked.
Rejects(t) ==
    /\ pc'[t] = "handle_error"
    /\ err'[t] = CircuitBreakerOpenError
    /\ invocations'[t] = 0

\* Positions of a call between its admission by the breaker and the recording
\* of its outcome.
InFlight == {"invoke", "sleep", "succ_lock", "succ_body", "fail_lock", "fail_body"}

\* Positions from which the next step of a thread reads or writes a field of
\* the breaker.
AccessPcs == {"cb_check", "cb_reset", "cb_half", "succ_body", "fail_body", "status"}

\* C1: on a breaker that has recorded no success since construction, the
\* failure that brings the number of recorded failures to failure_threshold
\* leaves the state OPEN; a call that then finds the breaker OPEN, before
\* recovery_timeout has elapsed since that failure, goes to the reset check
\* without invoking func and is rejected there with CircuitBreakerOpenError.
C1_FreshThresholdOpens ==
    [][\A t \in Threads :
         /\ (pc[t] = "fail_body" /\ StepBy(t) /\ fresh
                /\ failure_count + 1 = failure_threshold)
            => state' = OPEN
         /\ (pc[t] = "cb_check" /\ StepBy(t) /\ fresh /\ state = OPEN
                /\ failure_count >= failure_threshold)
            => (pc'[t] = "cb_reset" /\ invocations'[t] = 0)
         /\ (pc[t] = "cb_reset" /\ StepBy(t) /\ fresh /\ state = OPEN
                /\ failure_count >= failure_threshold
                /\ Elapsed(last_failure_time) < recovery_timeout)
            => Rejects(t)]_vars

\* C1 witness: with a threshold of 2, two failures and no success recorded,
\* the breaker is OPEN and a later call has been rejected.
C1_Witness ==
    \E t \in Threads :
        /\ fresh /\ failure_threshold = 2 /\ failure_count = 2 /\ state = OPEN
        /\ pc[t] = "handle_error" /\ err[t] = CircuitBreakerOpenError
        /\ invocations[t] = 0

\* C2: a call that finds the breaker OPEN is rejected when less than
\* recovery_timeout has elapsed since the breaker entered OPEN, and goes on to
\* HALF_OPEN when at least recovery_timeout has elapsed since then.
C2_AdmissionByTimeSinceOpened ==
    [][\A t \in Threads :
         (pc[t] = "cb_reset" /\ StepBy(t) /\ state = OPEN)
         => IF Elapsed(opened_at) < recovery_timeout
               THEN Rejects(t)
               ELSE pc'[t] = "cb_half"]_vars

\* C3: at most one call admitted as a probe (it moved the breaker to
\* HALF_OPEN, or it found the breaker HALF_OPEN) is in flight at any time.
C3_SingleFlightProbe ==
    Cardinality({t \in Threads : pc[t] \in InFlight /\ guarded[t]
                                   /\ admitted[t] \in {"trial", HALF_OPEN}}) <= 1

\* C4: when the call that moved the breaker to HALF_OPEN records its failure,
\* the breaker is OPEN afterwards and last_failure_time is the time of that
\* failure.
C4_TrialFailureReopens ==
    [][\A t \in Threads :
         (pc[t] = "fail_body" /\ StepBy(t) /\ admitted[t] = "trial")
         => (state' = OPEN /\ last_failure_time' = At(now))]_vars

\* C5: when the call that moved the breaker to HALF_OPEN records its success,
\* the breaker is CLOSED with failure_count = 0 afterwards.
C5_TrialSuccessCloses ==
    [][\A t \in Threads :
         (pc[t] = "succ_body" /\ StepBy(t) /\ admitted[t] = "trial")
         => (state' = CLOSED /\ failure_count' = 0)]_vars

\* C6: every change of state is CLOSED->OPEN with failure_count at or above
\* the threshold, OPEN->HALF_OPEN with recovery_timeout elapsed since the last
\* failure, HALF_OPEN->CLOSED on a recorded success with failure_count reset,
\* or HALF_OPEN->OPEN on a recorded failure.
C6_OnlyLegalTransitions ==
    [][state' # state =>
         \/ /\ state = CLOSED /\ state' = OPEN
            /\ failure_count' >= failure_threshold
         \/ /\ state = OPEN /\ state' = HALF_OPEN
            /\ Elapsed(last_failure_time) >= recovery_timeout
         \/ /\ state = HALF_OPEN /\ state' = CLOSED
            /\ failure_count' = 0
            /\ \E t \in Threads : pc[t] = "succ_body" /\ StepBy(t)
         \/ /\ state = HALF_OPEN /\ state' = OPEN
            /\ \E t \in Threads : pc[t] = "fail_body" /\ StepBy(t)]_vars

\* C7: every step that reads or writes a field of the breaker is taken by a
\* thread that holds the breaker's lock.
C7_AccessesUnderLock ==
    [][\A t \in Threads :
         (pc[t] \in AccessPcs /\ StepBy(t)) => lock = t]_vars

\* C8: the steps of a call that is rejected with CircuitBreakerOpenError (it
\* finds the breaker OPEN, fails the reset check, and the error is handled by
\* safe_execute) leave state, failure_count, last_failure_time and
\* last_success_time unchanged.
C8_RejectionNotRecorded ==
    [][\A t \in Threads :
         (StepBy(t) /\ \/ pc'[t] = "cb_reset"
                       \/ (pc[t] = "cb_reset" /\ pc'[t] = "handle_error")
                       \/ (pc[t] = "handle_error"
                             /\ err[t] = CircuitBreakerOpenError))
         => UNCHANGED cbvars]_vars

\* C8 witness: a call has been rejected by a breaker that had recorded a
\* success and then opened.
C8_Witness ==
    \E t \in Threads :
        /\ pc[t] = "handle_error" /\ err[t] = CircuitBreakerOpenError
        /\ state = OPEN /\ last_success_time # None /\ failure_count >= 1

\* C9: a safe_execute call at the reset check of a breaker that is OPEN and
\* not yet eligible (no recovery_timeout elapsed since last_failure_time) ends
\* in CircuitBreakerOpenError with no invocation of func and no sleep,
\* whatever its retry configuration; the error then leaves safe_execute with
\* still no invocation and no sleep.
C9_OpenFailsFastNoRetries ==
    [][\A t \in Threads :
         /\ (pc[t] = "cb_reset" /\ StepBy(t) /\ state = OPEN
                /\ ~(last_failure_time # None
                       /\ Elapsed(last_failure_time) >= recovery_timeout))
            => (Rejects(t) /\ sleeps'[t] = 0)
         /\ (pc[t] = "handle_error" /\ err[t] = CircuitBreakerOpenError)
            => (invocations[t] = 0 /\ sleeps[t] = 0
                  /\ (StepBy(t) => pc'[t] = "idle"))]_vars

\* C9 witness: a call with the largest retry configuration has been rejected.
C9_Witness ==
    \E t \in Threads :
        /\ pc[t] = "handle_error" /\ err[t] = CircuitBreakerOpenError
        /\ retry_config[t] # None
        /\ retry_config[t][1].max_attempts = MaxAttempts
        /\ sleeps[t] = 0 /\ invocations[t] = 0

\* C10 as stated: a guarded call whose attempts have all failed, and whose
\* failure the breaker has recorded, has reported as many outcomes to the
\* breaker as it made attempts.
C10_EachAttemptReported ==
    \A t \in Threads :
        (pc[t] = "handle_error" /\ guarded[t] /\ err[t] = FuncError
            /\ reported[t] >= 1)
        => reported[t] = invocations[t]

\* C10 amended: the retried call is reported to the breaker once, as a whole:
\* the attempts and sleeps of the retry wrapper leave failure_count unchanged,
\* the failure of the last attempt raises it by exactly 1 whatever the number
\* of attempts made, and a success resets it to 0.
C10_WholeCallReportedOnce ==
    [][\A t \in Threads :
         /\ (pc[t] \in {"invoke", "sleep"} /\ StepBy(t))
            => (failure_count' = failure_count /\ reported'[t] = reported[t])
         /\ (pc[t] = "fail_body" /\ StepBy(t))
            => (failure_count' = failure_count + 1 /\ reported'[t] = 1)
         /\ (pc[t] = "succ_body" /\ StepBy(t))
            => failure_count' = 0]_vars

\* C10 witness: a guarded call has failed all of two attempts and has been
\* recorded once.
C10_Witness ==
    \E t \in Threads :
        /\ pc[t] = "handle_error" /\ guarded[t] /\ err[t] = FuncError
        /\ invocations[t] = 2 /\ sleeps[t] = 1 /\ reported[t] = 1

\* C11: a safe_execute call made with a circuit_breaker_name finds, after its
\* lookup, a breaker registered under that name and runs the function through
\* it (also when no breaker was registered under the name before); and the
\* breaker registered under a name stays the same instance for ever.
C11_LazyBreakerPerName ==
    [][/\ \A t \in Threads :
            (hpc[t] = "lookup" /\ hpc'[t] # "lookup" /\ cb_name[t] # None)
            => (cb_name[t][1] \in DOMAIN circuit_breakers'
                  /\ hpc'[t] = "cb_call")
       /\ \A n \in DOMAIN circuit_breakers :
            /\ n \in DOMAIN circuit_breakers'
            /\ circuit_breakers'[n] = circuit_breakers[n]]_vars

\* Every invocation of func so far raised an exception matching
\* retry_exceptions.
AllRetryable == \A i \in 1..Len(outcomes) : outcomes[i].kind = "retryable"

\* C12: a wrapper call whose invocations all failed with a retryable error
\* ends after exactly max_attempts invocations and max_attempts - 1 sleeps by
\* raising the error of the last invocation; a wrapper call that returned did
\* so with the result of its k-th invocation, k <= max_attempts, after k - 1
\* sleeps; while the call runs, every failed invocation but the one being
\* handled has been followed by one sleep.
C12_AttemptsAndSleeps ==
    /\ (rpc = "raised" /\ AllRetryable)
       => /\ Len(outcomes) = config[1].max_attempts
          /\ Len(slept) = config[1].max_attempts - 1
          /\ retry_result = <<"raise", outcomes[Len(outcomes)]>>
    /\ rpc = "returned"
       => /\ Len(outcomes) <= config[1].max_attempts
          /\ outcomes[Len(outcomes)].kind = "ok"
          /\ retry_result = <<"return", outcomes[Len(outcomes)]>>
          /\ Len(slept) = Len(outcomes) - 1
    /\ rpc \in {"call", "sleep"}
       => /\ Len(slept) = Len(outcomes)
          /\ Len(outcomes) < config[1].max_attempts

\* C12 witness: with max_attempts = 3, three invocations have failed with a
\* retryable error, two sleeps were made and the wrapper has raised.
C12_Witness ==
    /\ rpc = "raised" /\ AllRetryable
    /\ config[1].max_attempts = 3
    /\ Len(outcomes) = 3 /\ Len(slept) = 2

\* The smaller of two numbers.
Min(a, b) == IF a <= b THEN a ELSE b

\* C13: the n-th sleep of a wrapper call follows its n-th failed invocation
\* and lasts min(base_delay * 2^(n-1), max_delay) with exponential backoff,
\* base_delay without; with exponential backoff it never exceeds max_delay.
C13_BackoffDelays ==
    \A n \in 1..Len(slept) :
        /\ outcomes[n].kind = "retryable"
        /\ slept[n] = IF config[1].exponential_backoff
                         THEN Min(config[1].base_delay * (2 ^ (n - 1)),
                                  config[1].max_delay)
                         ELSE config[1].base_delay
        /\ config[1].exponential_backoff => slept[n] <= config[1].max_delay

\* C13 witness: with base_delay 1 and max_delay 3 the exponential delays are
\* 1, 2 and then 3: the third one is cut down from 4 to max_delay.
C13_Witness ==
    /\ rpc = "sleep"
    /\ config[1].exponential_backoff
    /\ config[1].base_delay = 1 /\ config[1].max_delay = 3
    /\ slept = <<1, 2, 3>>

\* C14: an invocation that raised an exception not matching retry_exceptions
\* is the last invocation of its wrapper call: the wrapper has raised that
\* exception, and no sleep was made beyond those that followed the earlier
\* invocations.
C14_NonRetryablePropagates ==
    \A i \in 1..Len(outcomes) :
        outcomes[i].kind = "other"
        => /\ i = Len(outcomes)
           /\ rpc = "raised"
           /\ retry_result = <<"raise", outcomes[i]>>
           /\ Len(slept) = i - 1

\* C14 witness: with max_attempts = 4 the second invocation raised a
\* non-retryable exception and the wrapper has raised, two attempts unused.
C14_Witness ==
    /\ rpc = "raised"
    /\ config[1].max_attempts = 4
    /\ Len(outcomes) = 2 /\ outcomes[2].kind = "other"
    /\ Len(slept) = 1

\* Threads whose call has counted an error of type e and has not yet
\* re-raised it.
Counted(e) == {t \in Threads : hpc[t] = "he_raise" /\ herr[t][1].type = e}

\* C15: a safe_execute call that ends in an error raises to its caller the
\* exception it caught; a call that returns a result leaves every error count
\* unchanged; and for every error type the count in error_stats is the number
\* of calls that have ended in an error of that type, plus the calls that have
\* counted theirs and are about to raise it - whatever the interleaving of
\* the calls.
C15_ErrorsCountedOnce ==
    [][/\ \A t \in Threads :
            /\ (hpc[t] = "he_raise" /\ hpc'[t] = "idle")
               => (herr[t] # None /\ surfaced'[t] = herr[t])
            /\ (hpc[t] \in {"cb_call", "direct"} /\ hpc'[t] = "idle")
               => (error_stats' = error_stats /\ surfaced'[t] = None)
       /\ \A e \in ErrorTypes :
            error_stats'[e] = ended'[e] + Cardinality(Counted(e))']_vars

\* C15 witness: two calls have failed concurrently with the same error type;
\* both have counted it and neither has returned to its caller yet.
C15_Witness ==
    /\ \A t \in Threads : hpc[t] = "he_raise" /\ herr[t][1].type = FuncError
    /\ error_stats[FuncError] = 2

\* The call of thread t that is at one of the positions pcs returns in this
\* step.
Returns(t, pcs) == wpc[t] \in pcs /\ wpc'[t] = "idle"

\* C16: a register_workflow call that returns True found its id absent; a
\* register_workflow call that reaches its check with the id registered
\* returns False and leaves the three collections as they are, so that
\* get_workflow_listener(id) is still the listener registered first.
C16_RegisterOnlyIfAbsent ==
    [][\A t \in Threads :
         /\ (Returns(t, {"reg_check", "reg_add"})
                /\ returned'[t] = PyBool(TRUE))
            => /\ workflow_id[t][1] \notin active_workflows
               /\ workflow_id[t][1] \in active_workflows'
               /\ DictGet(workflow_listeners', workflow_id[t][1]) = listener[t]
         /\ (wpc[t] = "reg_check" /\ wpc'[t] # "reg_check"
                /\ workflow_id[t][1] \in active_workflows)
            => /\ wpc'[t] = "idle" /\ returned'[t] = PyBool(FALSE)
               /\ UNCHANGED <<active_workflows, workflow_listeners,
                              last_workflow_activity>>
               /\ DictGet(workflow_listeners', workflow_id[t][1]) # None
               /\ DictGet(workflow_listeners', workflow_id[t][1])
                     = DictGet(workflow_listeners, workflow_id[t][1])]_vars

\* C16 witness: "wf-1" is registered with listener "L"; a later
\* register_workflow("wf-1", "L2") has returned False and
\* get_workflow_listener("wf-1") is still "L".
C16_Witness ==
    \E t \in Threads :
        /\ wpc[t] = "idle" /\ returned[t] = PyBool(FALSE)
        /\ workflow_id[t] = <<"wf-1">> /\ listener[t] = <<"L2">>
        /\ is_workflow_active("wf-1")
        /\ get_workflow_listener("wf-1") = <<"L">>

\* C17: an unregister_workflow call that reaches its check with the id
\* registered returns True, and afterwards the id is in none of the three
\* collections (is_workflow_active is False, get_workflow_listener is None);
\* one that reaches its check with the id absent returns False and changes
\* none of the collections.
C17_UnregisterRemovesEntry ==
    [][\A t \in Threads :
         /\ (wpc[t] = "unreg_check" /\ wpc'[t] # "unreg_check"
                /\ workflow_id[t][1] \notin active_workflows)
            => /\ wpc'[t] = "idle" /\ returned'[t] = PyBool(FALSE)
               /\ UNCHANGED <<active_workflows, workflow_listeners,
                              last_workflow_activity>>
         /\ (wpc[t] = "unreg_check" /\ wpc'[t] # "unreg_check"
                /\ workflow_id[t][1] \in active_workflows)
            => wpc'[t] = "unreg_remove"
         /\ Returns(t, {"unreg_remove"})
            => /\ returned'[t] = PyBool(TRUE)
               /\ workflow_id[t][1] \in active_workflows
               /\ workflow_id[t][1] \notin active_workflows'
               /\ workflow_id[t][1] \notin DOMAIN workflow_listeners'
               /\ workflow_id[t][1] \notin DOMAIN last_workflow_activity'
               /\ DictGet(workflow_listeners', workflow_id[t][1]) = None
               /\ \A id \in WorkflowIds \ {workflow_id[t][1]} :
                     /\ (id \in active_workflows') = (id \in active_workflows)
                     /\ DictGet(workflow_listeners', id)
                           = DictGet(workflow_listeners, id)
                     /\ DictGet(last_workflow_activity', id)
                           = DictGet(last_workflow_activity, id)]_vars

\* C17 witness: unregister_workflow("wf-1") has returned True; "wf-1" is
\* gone from the tracker while "wf-2" is still registered.
C17_Witness ==
    \E t \in Threads :
        /\ wpc[t] = "idle" /\ returned[t] = PyBool(TRUE)
        /\ workflow_id[t] = <<"wf-1">> /\ listener[t] = None
        /\ ~is_workflow_active("wf-1")
        /\ get_workflow_listener("wf-1") = None
        /\ is_workflow_active("wf-2")

\* The ids whose last activity lies more than the max_inactive_time of thread
\* t's cleanup call before the time that call read on entry.
Stale(t) ==
    {id \in DOMAIN last_workflow_activity :
        current_time[t] - last_workflow_activity[id] > max_inactive_time[t]}

\* The entries of the ids outside gone are what they were.
OthersKept(gone) ==
    \A id \in WorkflowIds \ gone :
        /\ (id \in active_workflows') = (id \in active_workflows)
        /\ DictGet(workflow_listeners', id) = DictGet(workflow_listeners, id)
        /\ DictGet(last_workflow_activity', id)
              = DictGet(last_workflow_activity, id)

\* C18 as stated: a cleanup_inactive_workflows call removes the stale entries
\* and nothing else, and returns the removed entries.
C18_RemovesAndReturnsStale ==
    [][\A t \in Threads :
         Returns(t, {"cl_remove"})
         => /\ active_workflows' = active_workflows \ Stale(t)
            /\ OthersKept(Stale(t))
            /\ returned'[t] = PyList(Stale(t))]_vars

\* C18 amended: a cleanup_inactive_workflows call removes from the three
\* collections every entry whose last activity lies more than
\* max_inactive_time before the time the call read on entry, leaves every
\* other entry registered with its listener and activity time unchanged, and
\* returns the number of entries it removed.
C18_RemovesStaleReturnsCount ==
    [][\A t \in Threads :
         Returns(t, {"cl_remove"})
         => /\ active_workflows' = active_workflows \ Stale(t)
            /\ DOMAIN workflow_listeners' = DOMAIN workflow_listeners \ Stale(t)
            /\ DOMAIN last_workflow_activity'
                  = DOMAIN last_workflow_activity \ Stale(t)
            /\ OthersKept(Stale(t))
            /\ returned'[t] = PyInt(Cardinality(Stale(t)))]_vars

\* C18 witness: a cleanup with max_inactive_time 0 has removed one entry
\* ("wf-1", last active one time unit ago) and kept "wf-2", active at the
\* current time, with its listener.
C18_Witness ==
    \E t \in Threads :
        /\ wpc[t] = "idle" /\ returned[t] = PyInt(1)
        /\ max_inactive_time[t] = 0
        /\ active_workflows = {"wf-2"}
        /\ get_workflow_listener("wf-2") # None
        /\ last_workflow_activity["wf-2"] = now
        /\ get_workflow_listener("wf-1") = None

\* C19: an update_workflow_activity call on a registered id sets the id's
\* last-activity time to the current time and changes nothing else; on an
\* absent id it changes nothing: the id is in none of the three collections
\* afterwards either.
C19_TouchNeverCreates ==
    [][\A t \in Threads :
         Returns(t, {"upd"})
         => /\ UNCHANGED <<active_workflows, workflow_listeners>>
            /\ returned'[t] = None
            /\ IF workflow_id[t][1] \in active_workflows
                  THEN /\ DOMAIN last_workflow_activity'
                             = DOMAIN last_workflow_activity
                       /\ last_workflow_activity'[workflow_id[t][1]] = now
                       /\ \A id \in DOMAIN last_workflow_activity :
                             id # workflow_id[t][1]
                             => last_workflow_activity'[id]
                                   = last_workflow_activity[id]
                  ELSE /\ UNCHANGED last_workflow_activity
                       /\ workflow_id[t][1] \notin active_workflows'
                       /\ workflow_id[t][1] \notin DOMAIN workflow_listeners'
                       /\ workflow_id[t][1]
                             \notin DOMAIN last_workflow_activity']_vars

\* C19 witness: thread 1 has unregistered "wf-1" (True), thread 2's
\* update_workflow_activity("wf-1") has returned after that, and "wf-1" is
\* not active.
C19_Witness ==
    /\ wpc[1] = "idle" /\ returned[1] = PyBool(TRUE)
    /\ workflow_id[1] = <<"wf-1">> /\ listener[1] = None
    /\ wpc[2] = "idle" /\ returned[2] = None
    /\ workflow_id[2] = <<"wf-1">> /\ listener[2] = None
    /\ ~is_workflow_active("wf-1")
    /\ "wf-1" \notin DOMAIN last_workflow_activity

\* C20: under every interleaving of register_workflow, unregister_workflow,
\* update_workflow_activity and cleanup_inactive_workflows calls, the three
\* collections hold the same ids (one listener and one activity time per
\* active id); the set of active ids changes only in the step in which a
\* register, unregister or cleanup call returns; a register call returns True
\* exactly when the id is absent at that step and an unregister call returns
\* True exactly when the id is registered at that step - so of the calls
\* racing for one id, one wins.
C20_OneRecordOneWinner ==
    [][/\ DOMAIN workflow_listeners' = active_workflows'
       /\ DOMAIN last_workflow_activity' = active_workflows'
       /\ active_workflows' # active_workflows
          => \E t \in Threads :
                Returns(t, {"reg_add", "unreg_remove", "cl_remove"})
       /\ \A t \in Threads :
            /\ Returns(t, {"reg_check", "reg_add"})
               => /\ returned'[t] \in {PyBool(TRUE), PyBool(FALSE)}
                  /\ (returned'[t] = PyBool(TRUE))
                        = (workflow_id[t][1] \notin active_workflows)
                  /\ workflow_id[t][1] \in active_workflows'
            /\ Returns(t, {"unreg_check", "unreg_remove"})
               => /\ returned'[t] \in {PyBool(TRUE), PyBool(FALSE)}
                  /\ (returned'[t] = PyBool(TRUE))
                        = (workflow_id[t][1] \in active_workflows)
                  /\ workflow_id[t][1] \notin active_workflows']_vars

\* C20 witness: thread 1's register_workflow("wf-1", "L") has returned
\* True; thread 2's register_workflow("wf-1", "L2") holds the lock and is at
\* its check, with "wf-1" registered once, under thread 1's listener.
C20_Witness ==
    /\ wpc[1] = "idle" /\ returned[1] = PyBool(TRUE)
    /\ workflow_id[1] = <<"wf-1">> /\ listener[1] = <<"L">>
    /\ wpc[2] = "reg_check" /\ tracker_lock = 2
    /\ workflow_id[2] = <<"wf-1">> /\ listener[2] = <<"L2">>
    /\ active_workflows = {"wf-1"}
    /\ get_workflow_listener("wf-1") = <<"L">>

\* The handler in progress takes its last step and has changed execution
\* state (start_times, execution_data) or a metric with it.
HandlerUpdates ==
    /\ handler.pc = "process"
    /\ handler'.pc = "returned"
    /\ listeners' # listeners \/ registry' # registry

\* C21: a handler checks is_workflow_active again immediately before it
\* changes execution state or a metric, so it makes no such change for a
\* workflow that is not registered at that moment, also when the workflow is
\* unregistered while the handler is in progress.
C21_RecheckBeforeMutation ==
    [][HandlerUpdates => is_workflow_active(handler.self)]_vars

\* The step that handler takes from its entry.
EntryStep == handler.pc = "entry" /\ handler' # handler

\* C22: the handler of a listener whose workflow is not registered returns
\* from its entry checks and changes nothing: the start_times and
\* execution_data of every listener, the tracker's collections (the
\* activity times among them) and the metrics are what they were.
C22_UnregisteredChangesNothing ==
    [][EntryStep /\ ~is_workflow_active(handler.self) =>
          /\ handler'.pc = "returned"
          /\ UNCHANGED <<listeners, active_workflows, workflow_listeners,
                         last_workflow_activity, registry>>]_vars

\* An event has been dropped by the listener of a workflow that had been
\* registered and is no longer, while the other workflow is registered.
C22_Witness ==
    /\ handler.pc = "returned"
    /\ handler.outcome = "inactive"
    /\ handler.self \notin active_workflows
    /\ active_workflows # {}

\* C23: while two workflows are registered, an event emitted by the
\* execution of one is tracked only by the listener of that workflow.
C23_OnlyOwnerProcesses ==
    [][/\ handler.pc = "process"
       /\ handler'.outcome = "processed"
       /\ Cardinality(active_workflows) = 2
       => handler.self = handler.origin]_vars

\* What the program itself left in the file (no other program's text).
OwnFile == persistence_file # None /\ persistence_file[1][1] = "written"

\* C24: the snapshot file is written atomically: at every moment, also
\* after a crash in the middle of save_metrics and while two saves overlap,
\* the file the program wrote is absent or holds one complete snapshot from
\* a single save, never an empty, truncated or mixed text.
C24_FileAbsentOrComplete == OwnFile => Complete(persistence_file)

\* The file is missing, empty or truncated, or holds another program's text
\* (not JSON, or JSON that is no snapshot).
BadFile ==
    \/ persistence_file = None
    \/ persistence_file[1][1] = "foreign"
    \/ persistence_file[1][2] = None
    \/ persistence_file[1][3] = None

\* Startup restore has not raised, and no save_metrics call has: a call
\* that returned gave True or False.
NothingRaised ==
    /\ restore_outcome # "raised"
    /\ \A s \in Savers :
          savers[s].returned # None
             => savers[s].returned \in {Return(<<TRUE>>), Return(<<FALSE>>)}

\* C25 as stated: for any state of the snapshot file that is no snapshot
\* (missing, empty, truncated, malformed JSON, JSON of the wrong shape)
\* load_metrics returns None instead of raising; startup restore completes
\* without raising; a failing save_metrics returns False instead of raising.
C25_BadFileLoadsNone ==
    /\ BadFile => \A read \in Read(persistence_file) :
                     load_metrics(read) = Return(None)
    /\ NothingRaised

\* C25, amended: nothing raises, for any state of the file.  load_metrics
\* returns None when the file is missing or what it holds is no JSON text
\* or no JSON object; for a JSON object it returns the value under
\* "metrics", of whatever type, and {} when the key is absent.
C25_NeverRaises ==
    /\ \A read \in Read(persistence_file) :
          LET loaded == load_metrics(read)
          IN  /\ loaded[1] = "return"
              /\ get_metrics_age(read, time_time)[1] = "return"
              /\ (read[1] # "return" \/ read[2][1] # "object")
                    => loaded = Return(None)
              /\ (read[1] = "return" /\ read[2][1] = "object")
                    => loaded = Return(CASE read[2][3] = Missing ->
                                              <<Object(Missing, Missing)>>
                                         [] read[2][3] = Null -> None
                                         [] OTHER -> <<read[2][3]>>)
    /\ NothingRaised

\* The process started on a file holding JSON of the wrong shape, its
\* restore gave up without raising, and a save of it has failed and
\* returned False.
C25_Witness ==
    /\ up
    /\ persistence_file # None
    /\ persistence_file[1][1] = "foreign"
    /\ restore_outcome = "gave up"
    /\ savers["periodic"].returned = Return(<<FALSE>>)

\* Values of max_age_hours: the default, and none at all.
MaxAges == {0, DefaultMaxAgeHours}

\* What was read is a JSON object with a number as its timestamp.
Parseable(read) ==
    /\ read[1] = "return"
    /\ read[2][1] = "object"
    /\ read[2][2][1] = "number"

\* Whatever reading the file gives, the answer is no.
NotToRestore ==
    \A read \in Read(persistence_file) :
       should_restore_metrics(read, time_time, DefaultMaxAgeHours)
          = Return(FALSE)

\* C26: should_restore_metrics(max_age_hours) is true exactly when a
\* parseable snapshot exists and its age, now minus the saved timestamp, is
\* strictly less than max_age_hours; when it is false (stale, missing or
\* unreadable snapshot), startup restore changes no metric.
C26_RestoreOnlyFresh ==
    /\ [](\A read \in Read(persistence_file), max_age_hours \in MaxAges :
            should_restore_metrics(read, time_time, max_age_hours)
               = Return(/\ Parseable(read)
                        /\ time_time - read[2][2][2]
                              < max_age_hours * SecondsPerHour))
    /\ [][~up /\ up' /\ NotToRestore => registry' = registry]_vars

\* The process started on a complete snapshot that holds samples and is
\* exactly max_age_hours old: nothing was restored.
C26_Witness ==
    /\ up
    /\ Complete(persistence_file)
    /\ persistence_file[1][2][1][3] # <<"array", {}>>
    /\ time_time - persistence_file[1][2][1][2][2]
          = DefaultMaxAgeHours * SecondsPerHour
    /\ restore_outcome = "too old"
    /\ registry = <<>>

\* _restore_metrics runs, at startup or in the running process.
RestoreStep == Startup \/ RestoreAgain

\* The file holds one complete snapshot, young enough to be restored.
FreshSnapshot ==
    /\ Complete(persistence_file)
    /\ \A read \in Read(persistence_file) :
          should_restore_metrics(read, time_time, DefaultMaxAgeHours)
             = Return(TRUE)

\* The samples of the snapshot in the file that stand for a counter.
SavedCounters ==
    {m \in persistence_file[1][2][1][3][2] : CounterNamed(m[2]) # {}}

\* C27: restoring a counter sample with persisted value P onto a live
\* counter with value L leaves the counter at max(L, P): advanced by P - L
\* when P > L, unchanged otherwise.
C27_CounterAtMax ==
    [][RestoreStep /\ FreshSnapshot =>
          \A m \in SavedCounters :
             LET counter == CHOOSE c \in CounterNamed(m[2]) : TRUE
                 L == Child(registry, counter, m[3], 0)
                 P == m[4]
             IN  registry'[<<counter, m[3]>>] = IF P > L THEN P ELSE L]_vars

\* The samples of the snapshot in the file.
Saved == persistence_file[1][2][1][3][2]

\* The saved sum samples of the histogram child k.
SavedSums(k) ==
    {m \in Saved : m[2] = <<Base(k[1]), "_sum">> /\ m[3] = k[2]}

\* C28: restoring a histogram sum sample with persisted value S performs
\* exactly one observation of S on the matching histogram: its count goes
\* up by exactly 1 and its sum by exactly S.  The persisted count samples
\* change nothing (bucket samples are not saved): a histogram without a
\* saved sum is as it was.
C28_SumObservedOnce ==
    [][RestoreStep /\ FreshSnapshot =>
          /\ \A m \in Saved :
                HistogramNamed(m[2]) # {}
                   => <<CHOOSE h \in HistogramNamed(m[2]) : TRUE, m[3]>>
                         \in DOMAIN registry'
          /\ \A k \in DOMAIN registry' :
                k[1] \in Histograms =>
                   LET old == Child(registry, k[1], k[2],
                                    [count |-> 0, sum |-> 0])
                   IN  IF SavedSums(k) = {}
                          THEN k \in DOMAIN registry /\ registry'[k] = old
                          ELSE \A m \in SavedSums(k) :
                                  registry'[k] = [count |-> old.count + 1,
                                                  sum |-> old.sum + m[4]]]_vars

\* A workflow's duration was observed once and, from the snapshot saved
\* after that, restored onto the running process: two observations, the
\* second of the saved sum.
C28_Witness ==
    /\ restore_outcome = "restored"
    /\ \E k \in DOMAIN registry :
          /\ k[1] = "WORKFLOW_DURATION"
          /\ registry[k] = [count |-> 2, sum |-> MaxDuration + MaxDuration]

\* A registry is saved, and the snapshot is restored at once into the
\* fresh, empty registry of a new process.
RoundTrip(reg) ==
    restore_metrics(<<>>, Return(save_data(reg, time_time)), time_time)[2]

\* C29 as stated: for any recorded metrics, saving a snapshot and restoring
\* it into a fresh, empty registry yields for every counter sample and every
\* gauge sample exactly the value it had when it was saved.
C29_EveryCounterAndGauge ==
    up => \A k \in DOMAIN registry :
             k[1] \in Counters \cup Gauges
                => /\ k \in DOMAIN RoundTrip(registry)
                   /\ RoundTrip(registry)[k] = registry[k]

\* The metrics that are persisted: all but the evaluation metrics.
Persisted(metric) == ~IsEvaluation(<<Base(metric), "">>)

\* The samples of the snapshot in the file that stand for a gauge.
SavedGauges == {m \in Saved : m[2] = <<"patent_workflow_success", "_rate">>}

\* C29, amended: the round trip gives every counter and gauge sample other
\* than those of the evaluation metrics its saved value.  Each such sample
\* of the registry is in the list that is saved, and startup restore from a
\* complete fresh snapshot leaves every counter and gauge sample of the
\* snapshot at its saved value.
C29_PersistedRoundTrip ==
    /\ [](up => LET saved == metrics_list(registry)
                    restored == RoundTrip(registry)
                IN  \A k \in DOMAIN registry :
                       k[1] \in Counters \cup Gauges /\ Persisted(k[1])
                          => /\ SamplesOf(k[1], k[2], registry[k])
                                   \subseteq saved
                             /\ k \in DOMAIN restored
                             /\ restored[k] = registry[k])
    /\ [][Startup /\ FreshSnapshot =>
            /\ \A m \in SavedCounters :
                  LET k == <<CHOOSE c \in CounterNamed(m[2]) : TRUE, m[3]>>
                  IN  k \in DOMAIN registry' /\ registry'[k] = m[4]
            /\ \A m \in SavedGauges :
                  LET k == <<"WORKFLOW_SUCCESS_RATE", m[3]>>
                  IN  k \in DOMAIN registry' /\ registry'[k] = m[4]]_vars

\* A new process has restored the snapshot of an earlier one and has saved
\* nothing itself: the count of the failed workflow is 1 and its success
\* rate is 0, as they were saved.
C29_Witness ==
    /\ up
    /\ restore_outcome = "restored"
    /\ Complete(persistence_file)
    /\ \A s \in Savers : savers[s].pc = "idle" /\ savers[s].returned = None
    /\ DictGet(registry, <<"WORKFLOW_EXECUTIONS_TOTAL", <<"wf-1", "failure">>>>)
          = <<1>>
    /\ DictGet(registry, <<"WORKFLOW_SUCCESS_RATE", <<"wf-1">>>>) = <<0>>

\* The inc() calls the worker threads have completed.
RECURSIVE Completed(_)
Completed(ts) ==
    IF ts = {} THEN 0
    ELSE LET t == CHOOSE w \in ts : TRUE
         IN  workers[t].incs + Completed(ts \ {t})

Held(t) ==
    {l \in {"breaker", "handler", "tracker"} :
        \/ l = "breaker" /\ lock = t
        \/ l = "handler" /\ handler_lock = t
        \/ l = "tracker" /\ tracker_lock = t}

\* Thread t is about to acquire a lock and blocks while it is held.
Acquiring(t) ==
    \/ pc[t] \in {"succ_lock", "fail_lock", "handle_error"}
    \/ wpc[t] \in {"reg_lock", "unreg_lock", "upd_lock", "cl_lock"}

\* C31: no thread ever holds more than one of the component locks (a
\* breaker's lock, the ErrorHandler lock, the WorkflowTracker lock), and a
\* thread that holds one is not waiting for another, so no cycle of
\* waiting threads is reachable; the step that updates the error
\* statistics is taken by a thread that does not hold the breaker's lock.
C31_OneLockAtATime ==
    /\ [](\A t \in Threads :
            /\ Cardinality(Held(t)) <= 1
            /\ Held(t) # {} => ~Acquiring(t))
    /\ [][error_stats' # error_stats =>
            \A t \in Threads : StepBy(t) => lock # t /\ lock' # t]_vars

\* One thread counts an error under the ErrorHandler lock, after its
\* failure opened the breaker and the breaker's lock was released, while
\* the other thread holds the tracker's lock.
C31_Witness ==
    /\ pc[1] = "handle_error_body"
    /\ Held(1) = {"handler"}
    /\ state = OPEN
    /\ Held(2) = {"tracker"}

\* func has stopped failing.
Healthy == ~Faulty

\* C32: once every invocation succeeds and the callers keep calling, a
\* breaker that is OPEN or HALF_OPEN becomes CLOSED; under no interleaving
\* does it stay OPEN or HALF_OPEN for ever.
C32_EventuallyClosed == (state \in {OPEN, HALF_OPEN}) ~> (state = CLOSED)

\* The breaker was opened, func recovered, and a trial call made after the
\* recovery timeout has closed it.
C32_Witness ==
    /\ Healthy
    /\ state = CLOSED
    /\ opened_at # None
    /\ last_success_time # None
    /\ TimeOf(last_success_time) >= TimeOf(opened_at) + recovery_timeout

\* C33: whenever the breaker is OPEN or HALF_OPEN, failure_count is at
\* least failure_threshold, also with concurrent callers admitted before
\* the breaker opened.
C33_OpenMeansThresholdReached ==
    state \in {OPEN, HALF_OPEN} => failure_count >= failure_threshold

\* The registry is what restoring the file's snapshot into a new process
\* has made of it, and nothing has been tracked since.
RestoredOnce ==
    /\ restore_outcome = "restored"
    /\ FreshSnapshot
    /\ Saved # {}
    /\ registry = RestoreAll(<<>>, Saved)

\* C34: restoring the same snapshot a second time (the manual restore
\* script after the restore at startup) leaves every counter, gauge and
\* histogram sum and count at its value after the first restore.
C34_SecondRestoreChangesNothing ==
    [][RestoreAgain /\ RestoredOnce => registry' = registry]_vars

\* The executions of a kind of step that the metrics count.
Recorded(kind) ==
    IF kind = "agent"
       THEN Child(registry, "AGENT_EXECUTIONS_TOTAL",
                  <<"fetcher_agent", "success">>, 0)
            + Child(registry, "AGENT_EXECUTIONS_TOTAL",
                    <<"fetcher_agent", "failure">>, 0)
       ELSE Child(registry, "WORKFLOW_EXECUTIONS_TOTAL",
                  <<Tracked, "success">>, 0)
            + Child(registry, "WORKFLOW_EXECUTIONS_TOTAL",
                    <<Tracked, "failure">>, 0)

\* The handler invocations that have taken a start time and not yet
\* tracked it.
Unrecorded(kind) ==
    {t \in Threads : /\ delivery[t].kind = kind
                     /\ delivery[t].pc \in {"ended", "track"}
                     /\ delivery[t].duration > 0}

\* C35: for every step of a listener, the executions recorded in the
\* metrics never exceed the start events accepted for it: a duplicate
\* completion or failure event, or one for which no start is tracked,
\* records nothing, also when two such events are handled concurrently.
C35_RecordedWithinAccepted ==
    \A kind \in StepKinds :
       Recorded(kind) + Cardinality(Unrecorded(kind)) <= accepted[kind]

\* One start was accepted and its execution recorded by one thread, while
\* the other thread, handling a second completion of the same step, has
\* read the start time that is gone by now and is about to delete it.
C35_Witness ==
    /\ accepted["agent"] = 1
    /\ Recorded("agent") = 1
    /\ delivery[2].kind = "agent"
    /\ delivery[2].pc = "end_del"
    /\ delivery[2].duration > 0
    /\ StepOf("agent") \notin DOMAIN listeners[Tracked].start_times

\* Thread t takes a step of a handler that the bus called after cleanup()
\* had returned.
LateStep(t) == delivery[t].late /\ delivery'[t] # delivery[t]

\* C36: after MonitoringEventListener.cleanup() has returned, no handler
\* of the listener records anything: a later event leaves start_times,
\* execution_data and the metrics as they are, also while the workflow is
\* still registered with the tracker.
C36_NothingAfterCleanup ==
    [][(\E t \in Threads : LateStep(t))
          => /\ listeners' = listeners
             /\ registry' = registry]_vars

\* C37: every workflow that a chat run registers is unregistered in the
\* end: once the run has finished, whichever way, none of its workflow ids
\* is active, and a registered id does not stay registered; starting a new
\* workflow on a crew object unregisters the id it had.
C37_RegisteredThenUnregistered ==
    /\ [](run.pc = "finished" => active_workflows \cap run.used = {})
    /\ \A id \in WorkflowIds :
          (id \in active_workflows) ~> (id \notin active_workflows)
    /\ [][run'.crew # run.crew /\ run.crew # None
             => run.crew[1] \notin active_workflows']_vars

\* The run's workflow was registered (its listener exists) and the run
\* has finished.
C37_Witness ==
    /\ run.pc = "finished"
    /\ run.workflow_id # None
    /\ run.workflow_id[1] \in DOMAIN listeners
    /\ run.workflow_id[1] \notin active_workflows

\* The workflows that thread t's sweep removes in this step.
Swept(t) ==
    IF wpc[t] = "cl_remove" /\ wpc'[t] # "cl_remove"
       THEN DOMAIN last_workflow_activity \ DOMAIN last_workflow_activity'
       ELSE {}

\* C38: cleanup_inactive_workflows removes only workflows whose last
\* activity is, when they are removed, older than max_inactive_time, also
\* when update_workflow_activity or register_workflow ran after the sweep
\* read the clock and before it took the lock.
C38_RemovedOnlyIfStale ==
    [][\A t \in Threads : \A id \in Swept(t) :
          now - last_workflow_activity[id] > max_inactive_time[t]]_vars

\* A sweep is about to remove a stale workflow and keeps another, whose
\* activity the other thread's update_workflow_activity has set to a time
\* that is not before the sweep's reading of the clock.
C38_Witness ==
    /\ wpc[1] = "cl_remove"
    /\ to_remove[1] # {}
    /\ \E id \in DOMAIN last_workflow_activity \ to_remove[1] :
          /\ last_workflow_activity[id] >= current_time[1]
          /\ wpc[2] = "idle"
          /\ returned[2] = None
          /\ workflow_id[2] = <<id>>

\* What get_status (workflow_tracker.py lines 92-103) reports of the
\* collections.
tracker_status ==
    [workflow_count |-> Cardinality(active_workflows),
     listener_count |-> Cardinality(DOMAIN workflow_listeners)]

\* C39: whenever the tracker's lock is free, the active workflow ids, the
\* keys of the listener map and the keys of the last-activity map are the
\* same set: get_status reports workflow_count = listener_count, and
\* is_workflow_active(id) holds exactly when get_workflow_listener(id)
\* finds an entry.
C39_CollectionsAgree ==
    tracker_lock = 0 =>
       /\ active_workflows = DOMAIN workflow_listeners
       /\ active_workflows = DOMAIN last_workflow_activity
       /\ tracker_status.workflow_count = tracker_status.listener_count
       /\ \A id \in WorkflowIds :
             is_workflow_active(id) <=> get_workflow_listener(id) # None

\* The lock is free, a sweep has removed one workflow and another is still
\* registered.
C39_Witness ==
    /\ tracker_lock = 0
    /\ active_workflows # {}
    /\ \E t \in Threads : returned[t] = PyInt(1)

\* _restore_metrics, lines 251-345: the saved samples it passes over with
\* `skipped_count += 1; continue`: a _total or _count sample of no known
\* counter (lines 261-272), a gauge other than the success rate (lines
\* 292-295), an evaluation or unknown histogram sum (lines 313-315 and
\* 337-340), and every other name (lines 343-345).
SkippedByRestore(metric) ==
    LET name == metric[2]
    IN  IF EndsWith(name, "_total") \/ EndsWith(name, "_count")
           THEN CounterNamed(name) = {}
        ELSE IF EndsWith(name, "_rate")
           THEN name # <<"patent_workflow_success", "_rate">>
        ELSE IF name = <<"patent_workflow_duration_seconds", "">>
           THEN FALSE
        ELSE IF EndsWith(name, "_sum")
           THEN IsEvaluation(name) \/ HistogramNamed(name) = {}
        ELSE TRUE

\* C40: _save_metrics persists only what restore can handle: no sample of
\* the list it hands to save_metrics is one that _restore_metrics skips.
C40_SavedIsRestorable ==
    [][\A s \in Savers :
          SaveExport(s) =>
             \A m \in metrics_list(registry) : ~SkippedByRestore(m)]_vars

====
